---- MODULE Spec2Model ----
(***************************************************************************)
(* The real-time call-media bridge of backend/app/api/v1/call_media.py and *)
(* call_websocket.py: one call session, the three asyncio activities that  *)
(* run against it (the Twilio media handler, the process_stt task and the  *)
(* frontend WebSocket handler) and the end-session endpoint; then the      *)
(* table of all sessions and the lookup by call id of every operation.     *)
(* Last come the services around the bridge, each exercised on its own:    *)
(* the session record and its file, the conversation bookkeeping of the    *)
(* chat endpoint, the audio chunking and conversion, the agent request     *)
(* with its retry, and the recorded-call flow of CallBridgeManager.        *)
(*                                                                         *)
(* asyncio runs one coroutine at a time and switches only at an await that *)
(* really suspends, so one action is the code a coroutine runs between two *)
(* suspensions: the network round trips (transcription stream, translate,  *)
(* agent, synthesis stream) and the receive of the next inbound message.   *)
(* A send to the observer WebSocket is taken together with the code around *)
(* it.                                                                     *)
(*                                                                         *)
(* Texts are sequences of characters (one-character strings; an accented   *)
(* letter is one element named by its letter and accent). Wall-clock time  *)
(* is in tenths of a second, an inactivity probability in hundredths.      *)
(***************************************************************************)
EXTENDS Integers, Sequences, FiniteSets, TLC

\* ------------------------------------------------------------------ bounds
MaxCallDeltas == 1
MaxSttDeltas == 2
MaxSilence == 3
MaxCallTurns == 2
MaxSttTurns == 2
MaxAgentTurns == 3
MaxChunks == 1
MaxUserResponses == 1
MaxCallFrames == 1
MaxQueueFrames == 3
MaxSessions == 2
MaxTableEntries == 1
MaxTableFrames == 1
MaxTableTextLen == 1
MaxStamp == 1
MaxSaved == 2
MaxConversations == 3
MaxMessages == 3
MaxBytes == 5
MaxChunkSize == 3
MaxFeedFrames == 4

\* ------------------------------------------------------- program constants
SILENCE_THRESHOLD == 3
InactivityThreshold == 90
PreviewMinChars == 20
PreviewMinElapsed == 10
AckMaxLen == 20
EpochStart == 10000

\* ------------------------------------------------------------------- texts
Upper == <<"A", "B", "C", "D", "E", "F", "G", "H", "I", "J", "K", "L", "M",
           "N", "O", "P", "Q", "R", "S", "T", "U", "V", "W", "X", "Y", "Z">>
Lowers == <<"a", "b", "c", "d", "e", "f", "g", "h", "i", "j", "k", "l", "m",
            "n", "o", "p", "q", "r", "s", "t", "u", "v", "w", "x", "y", "z">>

LowerChar(c) ==
    IF \E i \in 1..26 : Upper[i] = c
    THEN Lowers[CHOOSE i \in 1..26 : Upper[i] = c]
    ELSE c

\* str.lower()
Lower(s) == [i \in 1..Len(s) |-> LowerChar(s[i])]

IsSpace(c) == c = " "

\* str.strip()
Strip(s) ==
    IF \A i \in 1..Len(s) : IsSpace(s[i])
    THEN <<>>
    ELSE LET first == CHOOSE i \in 1..Len(s) :
                          /\ ~IsSpace(s[i])
                          /\ \A j \in 1..(i - 1) : IsSpace(s[j])
             last == CHOOSE i \in 1..Len(s) :
                          /\ ~IsSpace(s[i])
                          /\ \A j \in (i + 1)..Len(s) : IsSpace(s[j])
         IN SubSeq(s, first, last)

\* a in b, for Python strings
IsSubstr(a, b) ==
    \E i \in 0..(Len(b) - Len(a)) : SubSeq(b, i + 1, i + Len(a)) = a

\* What the counterparty may say in one text delta of the transcription
\* stream.
ChunkOui == <<"o", "u", "i">>
ChunkBye == <<"m", "e", "r", "c", "i", " ", "A", "u", " ", "r", "e", "v", "o",
              "i", "r", " ", "m", "a", "d", "a", "m", "e">>
ChunkMid == <<"v", "o", "t", "r", "e", " ", "n", "u", "m", "e", "r", "o">>
ChunkLong == <<"j", "e", " ", "r", "e", "g", "a", "r", "d", "e", " ", "v", "o",
               "t", "r", "e", " ", "d", "o", "s", "s", "i", "e", "r">>
ChunkBlank == <<" ">>
FrenchChunks == {ChunkMid, ChunkLong, ChunkBlank}
CallChunks == {ChunkOui, ChunkBye}

\* Seconds (in tenths) between two reads of time.time().
Delays == {0, 11}
CallDelays == {11}

\* inactivity_prob values of a VAD sample (hundredths).
VadProbs == {90, 95}
CallVadProbs == {95}

\* What the translation service may answer for a French text.
EnOk == <<"o", "k">>
EnGoodbye == <<"G", "o", "o", "d", "b", "y", "e">>
EnLong == <<"w", "h", "a", "t", " ", "i", "s", " ", "y", "o", "u", "r", " ",
            "f", "i", "l", "e", " ", "n", "u", "m", "b", "e", "r">>
EnglishAnswers == {EnOk}
CallEnglishAnswers == {EnGoodbye}
FrGeneric == <<"u", "n", " ", "i", "n", "s", "t", "a", "n", "t">>
FrenchAnswers == {FrGeneric}

UserQuestion == <<"i", " ", "n", "e", "e", "d", " ", "h", "e", "l", "p">>
ReplyA == <<"I", " ", "n", "e", "e", "d", " ", "h", "e", "l", "p", " ", "n", "o",
            "w">>
ReplyC == <<"m", "y", " ", "n", "u", "m", "b", "e", "r", " ", "i", "s", " ",
            "1", "2">>
ReplyPadded == <<" ", "I", " ", "N", "E", "E", "D", " ", "H", "E", "L", "P", " ">>
EnLongAck == <<"O", "K", "A", "Y", " ", "I", " ", "c", "h", "e", "c", "k", " ",
               "y", "o", "u", "r", " ", "f", "i", "l", "e">>
\* The agent's answers: message (empty for none) and whether the action is
\* ask_user.
AgentResults(messages) == [message : messages, ask_user : BOOLEAN]
\* What the human may type on the observer channel.
UserResponses == {ReplyC, <<>>}
CallUserResponses == {ReplyC}

termination_phrases == <<
    <<"a", "u", " ", "r", "e", "v", "o", "i", "r">>,
    <<"g", "o", "o", "d", "b", "y", "e">>,
    <<"b", "o", "n", "n", "e", " ", "j", "o", "u", "r", "n", "e_acute", "e">>,
    <<"b", "o", "n", " ", "j", "o", "u", "r", "n", "e_acute", "e">>,
    <<"b", "y", "e">>,
    <<"a", " ", "b", "i", "e", "n", "t", "o_circ", "t">> >>

acks == <<
    <<"s", "u", "r", "e">>,
    <<"o", "k", "a", "y">>,
    <<"o", "k">>,
    <<"d", "'", "a", "c", "c", "o", "r", "d">>,
    <<"b", "i", "e", "n", " ", "s", "u_circ", "r">>,
    <<"y", "e", "s">>,
    <<"o", "u", "i">>,
    <<"u", "n", "d", "e", "r", "s", "t", "o", "o", "d">>,
    <<"g", "o", "o", "d">> >>

\* any(phrase in text.lower() for phrase in termination_phrases)
HasTermination(text) ==
    LET lowered == Lower(text)
    IN \E k \in 1..Len(termination_phrases) :
           IsSubstr(termination_phrases[k], lowered)

\* ------------------------------------------------------------------ phases
GATHERING_INFO == "gathering_info"
READY_TO_CALL == "ready_to_call"
DIALING == "dialing"
CONNECTED == "connected"
WAITING_GREETING_RESPONSE == "waiting_greeting_response"
CAF_SPEAKING == "caf_speaking"
WAITING_USER == "waiting_user"
USER_SPEAKING == "user_speaking"
ENDED == "ended"
FAILED == "failed"
CallPhase == {GATHERING_INFO, READY_TO_CALL, DIALING, CONNECTED,
              WAITING_GREETING_RESPONSE, CAF_SPEAKING, WAITING_USER,
              USER_SPEAKING, ENDED, FAILED}

\* -------------------------------------------------------------------- state
VARIABLES
    \* CallSession
    phase, transcript, twilio_ws, twilio_stream_sid, twilio_call_sid,
    frontend_ws, error,
    \* where each activity is suspended
    pc_tw, pc_stt, pc_fe,
    \* locals of process_stt
    current_text, last_translated_text, last_translation,
    last_translation_time, vad_silence_counter, now, english_final,
    agent_message, agent_action,
    \* local of frontend_websocket
    english_text,
    \* synthesis streams open inside speak_to_caf, and the utterances begun
    streams, utt_seq,
    \* what was sent: to the observer WebSocket, to the telephony leg
    events,
    \* the frontend socket was closed by the server (end_call_session)
    frontend_closed,
    \* history: the consecutive VAD samples above the threshold since the
    \* last other sample or turn boundary, the last transcription
    \* message consumed, the length covered by this turn's last preview,
    \* counts of messages consumed, of translation calls and of deltas that
    \* met both preview gates, why process_stt left its loop, whether an
    \* ask_user is unanswered, user responses received; the consecutive VAD
    \* samples above the threshold since the turn's last text delta (until
    \* the turn's final translation returns)
    silent_since_text, silence_streak, lastMsg, turnCovered, turnText, turnDeltas, pvLen, pvTime,
    n_turns, tr_en_calls, gates_met, stt_exit, ask_pending, n_user_responses,
    \* the media handler has queued audio for the transcription stream
    media_seen,
    \* audio_buffer of twilio_media_stream: the frames queued and not yet
    \* taken by audio_generator
    audio_buffer,
    \* _sessions: the sessions of all calls by call id; the locals of each
    \* call's media handler and process_stt task; the answer to the last
    \* operation that named a call id
    sessions, tasks, reply,
    \* which of the services the run exercises (they share no state)
    svc,
    \* CallSession.to_dict / from_dict: the session serialized and the session
    \* reconstructed from the record
    record, loaded,
    \* one session in memory and its record in the sessions file
    cs, file,
    \* _conversations: the chat conversations by conversation id
    conversations,
    \* chunk_audio: its arguments and what it returned
    audio_data, chunk_size, chunks,
    \* the converted frames queued for the transcription stream (the queue of
    \* twilio_media_stream) and the frames audio_generator has handed to it,
    \* each the numbers of its first and last byte
    pcm_queue, stt_frames,
    \* call_dify_chat: the conversation_id it was called with ("none" for
    \* None or the empty string, "blank" for white space only, "id"), the
    \* requests it has sent, each with the status of its response (0: no
    \* response), and how it ended ("none" while it runs)
    dify_conv, dify_requests, dify_result,
    \* the recorded-call flow (CallBridgeManager): status and error of the
    \* call's session, where _run_call_flow is suspended and where the
    \* recording webhook's handle_call_response is
    session_status, session_error, pc_flow, pc_rec

connVars == <<twilio_ws, twilio_stream_sid, twilio_call_sid, frontend_ws>>
sessionVars == <<phase, transcript, connVars, error>>
pcVars == <<pc_tw, pc_stt, pc_fe>>
previewVars == <<last_translated_text, last_translation,
                 last_translation_time>>
agentVars == <<english_final, agent_message, agent_action>>
sttLocals == <<current_text, previewVars, vad_silence_counter, now, agentVars>>
envVars == <<frontend_closed, english_text, media_seen>>
ioVars == <<streams, utt_seq, envVars>>
turnHist == <<silent_since_text, silence_streak, lastMsg, turnCovered, turnText, turnDeltas, pvLen,
              pvTime, n_turns, tr_en_calls, gates_met>>
histVars == <<turnHist, stt_exit, ask_pending, n_user_responses>>
tableVars == <<sessions, tasks, reply>>
svcVars == <<svc, record, loaded, cs, file, conversations, audio_data,
             chunk_size, chunks, pcm_queue, stt_frames, dify_conv,
             dify_requests, dify_result, session_status, session_error,
             pc_flow, pc_rec>>
callVars == <<sessionVars, pcVars, sttLocals, ioVars, events, histVars,
              audio_buffer>>
vars == <<sessionVars, pcVars, sttLocals, ioVars, events, histVars,
          audio_buffer, tableVars, svcVars>>

TranscriptEntry(speaker, french, english) ==
    [speaker |-> speaker, french_text |-> french, english_text |-> english]

\* An entry put in front of the transcript.
add_transcript_front(t, speaker, french, english) ==
    <<TranscriptEntry(speaker, french, english)>> \o t

\* CallSession.add_transcript
add_transcript(t, speaker, french, english) ==
    Append(t, TranscriptEntry(speaker, french, english))

\* notify_frontend: the message goes out only if a frontend socket is set.
notify_frontend(ev, type) ==
    Append(ev, [type |-> type, sent |-> frontend_ws])

\* websocket.send_json on the frontend handler's own socket
send_json(ev, type) == Append(ev, [type |-> type, sent |-> TRUE])

\* A translation that has no result when the service call raises.
translate_no_fallback(text, answers) == answers

\* translate_to_english / translate_to_french: the service's answer, or the
\* input unchanged when the call raises.
translate_to_english(french, answers) == answers \cup {french}
translate_to_french(english, answers) == answers \cup {english}

\* The english_text of the last entry of the speaker, <<>> if there is none
\* (the for ... reversed(session.transcript) loops of is_repetition_loop).
LastMessageOf(t, speaker) ==
    IF \E i \in 1..Len(t) : t[i].speaker = speaker
    THEN LET last == CHOOSE i \in 1..Len(t) :
                         /\ t[i].speaker = speaker
                         /\ \A j \in (i + 1)..Len(t) : t[j].speaker # speaker
         IN t[last].english_text
    ELSE <<>>

\* An acknowledgement test by length alone.
caf_said_short(last_caf_msg) == Len(last_caf_msg) < AckMaxLen

\* caf_said_ack = len(last_caf_msg) < 20 or any(ack in last_caf_msg.lower() ...)
caf_said_ack(last_caf_msg) ==
    \/ Len(last_caf_msg) < AckMaxLen
    \/ \E k \in 1..Len(acks) : IsSubstr(acks[k], Lower(last_caf_msg))

is_repetition_loop(t, new_response) ==
    LET last_agent_msg == LastMessageOf(t, "user")
        msg1 == Strip(Lower(last_agent_msg))
        msg2 == Strip(Lower(new_response))
        last_caf_msg == LastMessageOf(t, "caf")
    IN /\ last_agent_msg # <<>>
       /\ (IsSubstr(msg1, msg2) \/ IsSubstr(msg2, msg1))
       /\ last_caf_msg # <<>>
       /\ caf_said_ack(last_caf_msg)

\* No session, no value (Python's None)
None == 0

\* No session: a session whose call id is None
NoSession == [call_id |-> None]

\* Nothing has been asked of the services.
ServicesIdle ==
    /\ svc = "none"
    /\ record = NoSession
    /\ loaded = NoSession
    /\ cs = NoSession
    /\ file = NoSession
    /\ conversations = <<>>
    /\ audio_data = <<>>
    /\ chunk_size = 1
    /\ chunks = <<>>
    /\ pcm_queue = <<>>
    /\ stt_frames = <<>>
    /\ dify_conv = "none"
    /\ dify_requests = <<>>
    /\ dify_result = "none"
    /\ session_status = "pending"
    /\ session_error = "none"
    /\ pc_flow = "start"
    /\ pc_rec = "idle"

\* _sessions = {} ; no operation answered yet
NoSessions == [c \in {} |-> c]
NoReply == [call |-> 0, op |-> "none", code |-> 0]

\* A call just started and nothing else asked of the process
InitCall ==
    /\ phase = READY_TO_CALL
    /\ transcript = <<>>
    /\ twilio_ws = FALSE
    /\ twilio_stream_sid = FALSE
    /\ twilio_call_sid = FALSE
    /\ frontend_ws = FALSE
    /\ error = "none"
    /\ pc_tw = "idle"
    /\ pc_stt = "idle"
    /\ pc_fe = "idle"
    /\ current_text = <<>>
    /\ last_translated_text = <<>>
    /\ last_translation = <<>>
    /\ last_translation_time = 0
    /\ vad_silence_counter = 0
    /\ now = EpochStart
    /\ english_final = <<>>
    /\ agent_message = <<>>
    /\ agent_action = "none"
    /\ english_text = <<>>
    /\ streams = {}
    /\ utt_seq = 0
    /\ events = <<>>
    /\ frontend_closed = FALSE
    /\ silence_streak = 0
    /\ silent_since_text = 0
    /\ lastMsg = "none"
    /\ turnCovered = 0
    /\ turnText = <<>>
    /\ pvLen = 0
    /\ pvTime = -1
    /\ turnDeltas = 0
    /\ media_seen = FALSE
    /\ n_turns = 0
    /\ tr_en_calls = 0
    /\ gates_met = 0
    /\ stt_exit = "running"
    /\ ask_pending = FALSE
    /\ n_user_responses = 0
    /\ audio_buffer = 0
    /\ sessions = NoSessions
    /\ tasks = NoSessions
    /\ reply = NoReply

Init == InitCall /\ ServicesIdle

\* ------------------------------------------------------------ speak_to_caf
SttKinds == {"question", "filler", "reply"}
NoVad == -1

\* A turn end that keeps the accumulated text.
TurnKeepText(kind) == current_text

\* current_text = "" ; vad_silence_counter = 0 at the end of a turn
TurnResetText(kind) == <<>>
TurnResetCounter(kind) == 0

\* A return from speak_to_caf after which the ask_user branch does not ask.
ResumeUnresolved(kind, ph, ev) ==
    /\ phase' = CASE kind = "greeting" -> WAITING_GREETING_RESPONSE
                  [] kind = "question" -> CAF_SPEAKING
                  [] OTHER -> ph
    /\ events' = CASE kind = "greeting" ->
                          notify_frontend(ev, "caf_speaking_started")
                   [] OTHER -> ev
    /\ pc_tw' = IF kind = "greeting" THEN "loop" ELSE pc_tw
    /\ pc_stt' = IF kind \in SttKinds THEN "recv" ELSE pc_stt
    /\ pc_fe' = IF kind = "human" THEN "loop" ELSE pc_fe
    /\ current_text' = IF kind \in SttKinds THEN TurnResetText(kind)
                       ELSE current_text
    /\ vad_silence_counter' = IF kind \in SttKinds THEN TurnResetCounter(kind)
                              ELSE vad_silence_counter

\* The caller's code after "await speak_to_caf(...)", run with the return:
\* twilio_media_stream after the greeting, process_stt after the real
\* question, the filler or the reply, frontend_websocket after the human's
\* text. ph and ev are the phase and the observer events at the return.
Resume(kind, ph, ev) ==
    /\ phase' = CASE kind = "greeting" -> WAITING_GREETING_RESPONSE
                  [] kind = "question" -> CAF_SPEAKING
                  [] OTHER -> ph
    /\ events' = CASE kind = "greeting" ->
                          notify_frontend(ev, "caf_speaking_started")
                   [] kind = "filler" -> notify_frontend(ev, "waiting_for_user")
                   [] OTHER -> ev
    /\ pc_tw' = IF kind = "greeting" THEN "loop" ELSE pc_tw
    /\ pc_stt' = IF kind \in SttKinds THEN "recv" ELSE pc_stt
    /\ pc_fe' = IF kind = "human" THEN "loop" ELSE pc_fe
    /\ current_text' = IF kind \in SttKinds THEN TurnResetText(kind)
                       ELSE current_text
    /\ vad_silence_counter' = IF kind \in SttKinds THEN TurnResetCounter(kind)
                              ELSE vad_silence_counter

\* "await speak_to_caf(...)": the caller stays suspended in the call until it
\* returns.
AwaitSpeak(kind) == "speak"

\* speak_to_caf started by process_stt without awaiting its end: the stream
\* is requested and process_stt goes on to reset the turn and listen.
SpeakBeginDetached(kind, connected, ph, ev) ==
    IF connected
    THEN /\ streams' = streams \cup
                {[utt |-> utt_seq + 1, kind |-> kind, st |-> "open", sent |-> 0]}
         /\ utt_seq' = utt_seq + 1
         /\ phase' = USER_SPEAKING
         /\ events' = notify_frontend(ev, "speaking_to_caf")
         /\ pc_tw' = IF kind = "greeting" THEN AwaitSpeak(kind) ELSE pc_tw
         /\ pc_stt' = IF kind \in SttKinds THEN "recv" ELSE pc_stt
         /\ pc_fe' = IF kind = "human" THEN AwaitSpeak(kind) ELSE pc_fe
         /\ current_text' = IF kind \in SttKinds THEN TurnResetText(kind)
                            ELSE current_text
         /\ vad_silence_counter' = IF kind \in SttKinds
                                   THEN TurnResetCounter(kind)
                                   ELSE vad_silence_counter
    ELSE /\ Resume(kind, ph, ev)
         /\ UNCHANGED <<streams, utt_seq>>

\* speak_to_caf up to its first suspension: the early return without a
\* telephony connection, or USER_SPEAKING, the speaking_to_caf event and the
\* request for a synthesis stream.
SpeakBegin(kind, connected, ph, ev) ==
    IF connected
    THEN /\ streams' = streams \cup
                {[utt |-> utt_seq + 1, kind |-> kind, st |-> "open", sent |-> 0]}
         /\ utt_seq' = utt_seq + 1
         /\ phase' = USER_SPEAKING
         /\ events' = notify_frontend(ev, "speaking_to_caf")
         /\ pc_tw' = IF kind = "greeting" THEN AwaitSpeak(kind) ELSE pc_tw
         /\ pc_stt' = IF kind \in SttKinds THEN AwaitSpeak(kind) ELSE pc_stt
         /\ pc_fe' = IF kind = "human" THEN AwaitSpeak(kind) ELSE pc_fe
         /\ UNCHANGED <<current_text, vad_silence_counter>>
    ELSE /\ Resume(kind, ph, ev)
         /\ UNCHANGED <<streams, utt_seq>>

\* What SpeakBegin and Resume leave alone.
SpeakFrame == <<transcript, connVars, previewVars, now, agentVars, envVars,
                histVars>>

\* client.tts_stream(...) returned
TtsOpened(s) ==
    /\ s \in streams /\ s.st = "open"
    /\ streams' = (streams \ {s}) \cup {[s EXCEPT !.st = "stream"]}
    /\ events' = <<>>
    /\ UNCHANGED <<sessionVars, pcVars, sttLocals, utt_seq, envVars, histVars>>
    /\ UNCHANGED <<tableVars, audio_buffer, svcVars>>

\* one chunk of tts_stream.iter_bytes() forwarded to the telephony leg
TtsChunk(s) ==
    /\ s \in streams /\ s.st = "stream"
    /\ s.sent < MaxChunks
    /\ twilio_ws
    /\ streams' = (streams \ {s}) \cup {[s EXCEPT !.sent = s.sent + 1]}
    /\ events' = <<>>
    /\ UNCHANGED <<sessionVars, pcVars, sttLocals, utt_seq, envVars, histVars>>
    /\ UNCHANGED <<tableVars, audio_buffer, svcVars>>

\* the synthesis stream ended: CAF_SPEAKING, finished_speaking, return
TtsEnd(s) ==
    /\ s \in streams /\ s.st = "stream"
    /\ streams' = streams \ {s}
    /\ Resume(s.kind, CAF_SPEAKING,
              notify_frontend(<<>>, "finished_speaking"))
    /\ UNCHANGED <<SpeakFrame, error, utt_seq>>
    /\ UNCHANGED <<tableVars, audio_buffer, svcVars>>

\* the synthesis stream could not be opened, raised, or the send to the
\* telephony socket raised: session.error is set, return
TtsFail(s) ==
    /\ s \in streams
    /\ streams' = streams \ {s}
    /\ error' = "tts"
    /\ Resume(s.kind, phase, <<>>)
    /\ UNCHANGED <<SpeakFrame, utt_seq>>
    /\ UNCHANGED <<tableVars, audio_buffer, svcVars>>

\* ------------------------------------------------------------- process_stt
\* current_text += " " + french_chunk, or the chunk itself on an empty text
Accumulate(text, chunk) ==
    IF text # <<>> THEN text \o <<" ">> \o chunk ELSE chunk

\* A preview gate that opens on either condition.
PreviewGateEither(new_content_len, time_since_last) ==
    new_content_len > PreviewMinChars \/ time_since_last > PreviewMinElapsed

\* if new_content_len > 20 and time_since_last > 1.0
PreviewGate(new_content_len, time_since_last) ==
    new_content_len > PreviewMinChars /\ time_since_last > PreviewMinElapsed

\* A silence counter that a sample at or below the threshold does not reset.
NextSilenceNoReset(counter, inactivity_prob) == counter + 1

\* if inactivity_prob > 0.90: counter += 1, else: counter = 0
NextSilence(counter, inactivity_prob) ==
    IF inactivity_prob > InactivityThreshold THEN counter + 1 ELSE 0

\* A hard pause taken one sample early.
HardPauseEarly(counter, text) ==
    counter >= SILENCE_THRESHOLD - 1 /\ text # <<>>

\* if vad_silence_counter >= SILENCE_THRESHOLD and current_text
HardPause(counter, text) == counter >= SILENCE_THRESHOLD /\ text # <<>>

\* The first message after a turn boundary starts the turn's history anew.
AtBoundary == lastMsg = "hardpause"

\* Text deltas consumed in the current turn.
TurnDeltas == IF AtBoundary THEN 0 ELSE turnDeltas

\* client.stt_stream(...) returned the stream
SttOpen ==
    /\ events' = <<>>
    /\ pc_stt = "open"
    /\ pc_stt' = "recv"
    /\ UNCHANGED <<sessionVars, pc_tw, pc_fe, sttLocals, ioVars, histVars>>
    /\ UNCHANGED <<tableVars, audio_buffer, svcVars>>

\* a "text" message: accumulate, and translate a preview if both gates hold
RecvText(french_chunk, dt) ==
    /\ events' = <<>>
    /\ pc_stt = "recv"
    /\ media_seen
    /\ turnDeltas' = TurnDeltas + 1
    /\ lastMsg' = "text"
    /\ silence_streak' = IF AtBoundary THEN 0 ELSE silence_streak
    /\ turnCovered' = IF AtBoundary THEN 0 ELSE turnCovered
    /\ IF french_chunk = <<>> \/ Len(Strip(french_chunk)) < 1
       THEN /\ turnText' = IF AtBoundary THEN <<>> ELSE turnText
            /\ silent_since_text' =
                 IF AtBoundary THEN 0 ELSE silent_since_text
            /\ UNCHANGED <<current_text, now, pc_stt, tr_en_calls, gates_met>>
       ELSE /\ current_text' = Accumulate(current_text, french_chunk)
            /\ silent_since_text' = 0
            /\ turnText' = Accumulate(IF AtBoundary THEN <<>> ELSE turnText,
                                      french_chunk)
            /\ now' = now + dt
            /\ IF PreviewGate(Len(current_text') - Len(last_translated_text),
                              now' - last_translation_time)
               THEN pc_stt' = "pv_translate" /\ tr_en_calls' = tr_en_calls + 1
               ELSE UNCHANGED <<pc_stt, tr_en_calls>>
            /\ gates_met' =
                 IF /\ Len(current_text') - pvLen > PreviewMinChars
                    /\ (pvTime < 0 \/ now' - pvTime > PreviewMinElapsed)
                 THEN gates_met + 1 ELSE gates_met
    /\ UNCHANGED <<sessionVars, pc_tw, pc_fe, previewVars,
                   vad_silence_counter, agentVars, ioVars,
                   pvLen, pvTime, n_turns, stt_exit, ask_pending,
                   n_user_responses>>
    /\ UNCHANGED <<tableVars, audio_buffer, svcVars>>

\* translate_to_english returned for a preview: bookkeeping and caf_said
PreviewTranslated(english) ==
    /\ pc_stt = "pv_translate"
    /\ last_translation' = english
    /\ last_translated_text' = current_text
    /\ last_translation_time' = now
    /\ events' = notify_frontend(<<>>, "caf_said")
    /\ pc_stt' = "recv"
    /\ pvLen' = Len(current_text)
    /\ pvTime' = now
    /\ turnCovered' = Len(current_text)
    /\ UNCHANGED <<sessionVars, pc_tw, pc_fe, current_text,
                   vad_silence_counter, now, agentVars,
                   streams, utt_seq, envVars, silent_since_text,
                   silence_streak, lastMsg,
                   turnText, turnDeltas, n_turns, tr_en_calls, gates_met,
                   stt_exit, ask_pending, n_user_responses>>
    /\ UNCHANGED <<tableVars, audio_buffer, svcVars>>

\* a "step" message: the VAD sample vad[2], if the message carries one
RecvStep(inactivity_prob) ==
    /\ events' = <<>>
    /\ pc_stt = "recv"
    /\ media_seen
    /\ turnText' = IF AtBoundary THEN <<>> ELSE turnText
    /\ turnCovered' = IF AtBoundary THEN 0 ELSE turnCovered
    /\ turnDeltas' = TurnDeltas
    /\ IF inactivity_prob = NoVad
       THEN /\ lastMsg' = "novad"
            /\ silence_streak' = IF AtBoundary THEN 0 ELSE silence_streak
            /\ silent_since_text' =
                 IF AtBoundary THEN 0 ELSE silent_since_text
            /\ UNCHANGED <<vad_silence_counter, pc_stt, tr_en_calls, n_turns>>
       ELSE /\ vad_silence_counter' =
                   NextSilence(vad_silence_counter, inactivity_prob)
            /\ vad_silence_counter' <= MaxSilence
            /\ silence_streak' =
                   IF inactivity_prob > InactivityThreshold
                   THEN (IF AtBoundary THEN 0 ELSE silence_streak) + 1
                   ELSE 0
            /\ silent_since_text' =
                   IF inactivity_prob > InactivityThreshold
                   THEN (IF AtBoundary THEN 0 ELSE silent_since_text) + 1
                   ELSE 0
            /\ IF HardPause(vad_silence_counter', current_text)
               THEN /\ pc_stt' = "hp_translate"
                    /\ tr_en_calls' = tr_en_calls + 1
                    /\ n_turns' = n_turns + 1
                    /\ lastMsg' = "hardpause"
               ELSE /\ lastMsg' = "step"
                    /\ UNCHANGED <<pc_stt, tr_en_calls, n_turns>>
    /\ UNCHANGED <<sessionVars, pc_tw, pc_fe, current_text, previewVars, now,
                   agentVars, ioVars, pvLen, pvTime,
                   gates_met, stt_exit, ask_pending, n_user_responses>>
    /\ UNCHANGED <<tableVars, audio_buffer, svcVars>>

\* A turn end without the auto-hangup check.
TurnBranchNoHangup(text, english, ph) ==
    IF ph = WAITING_GREETING_RESPONSE THEN "greeting" ELSE "agent"

\* A turn end that never sends the deferred question.
TurnBranchAgentOnly(text, english, ph) ==
    IF HasTermination(english) \/ HasTermination(text) THEN "hangup"
    ELSE "agent"

\* What follows the final translation of a turn.
TurnBranch(text, english, ph) ==
    IF HasTermination(english) \/ HasTermination(text) THEN "hangup"
    ELSE IF ph = WAITING_GREETING_RESPONSE THEN "greeting"
    ELSE "agent"

\* translate_to_english returned at a hard pause: the transcript entry,
\* caf_finished, the auto-hangup check, then the greeting flow or the agent
FinalTranslated(english) ==
    /\ pc_stt = "hp_translate"
    /\ english_final' = english
    /\ transcript' = add_transcript(transcript, "caf", current_text, english)
    /\ LET ev == notify_frontend(<<>>, "caf_finished")
           branch == TurnBranch(current_text, english, phase)
       IN /\ phase' = CASE branch = "hangup" -> ENDED
                        [] branch = "greeting" -> phase
                        [] OTHER -> WAITING_USER
          /\ events' = CASE branch = "hangup" -> notify_frontend(ev, "call_ended")
                         [] branch = "greeting" -> ev
                         [] OTHER -> notify_frontend(ev, "agent_thinking")
          /\ pc_stt' = CASE branch = "hangup" -> "done"
                         [] branch = "greeting" -> "q_translate"
                         [] OTHER -> "agent"
          /\ stt_exit' = IF branch = "hangup" THEN "termination" ELSE stt_exit
    /\ silent_since_text' = 0
    /\ UNCHANGED <<connVars, error, pc_tw, pc_fe, current_text, previewVars,
                   vad_silence_counter, now, agent_message, agent_action,
                   streams, utt_seq, envVars, silence_streak, lastMsg,
                   turnCovered, turnText, turnDeltas, pvLen, pvTime, n_turns,
                   tr_en_calls, gates_met, ask_pending, n_user_responses>>
    /\ UNCHANGED <<tableVars, audio_buffer, svcVars>>

\* translate_to_french(session.user_question) returned: the transcript entry
\* and the real question spoken
QuestionTranslated(french_req) ==
    /\ pc_stt = "q_translate"
    /\ transcript' = add_transcript(transcript, "user", french_req,
                                    UserQuestion)
    /\ SpeakBegin("question", twilio_ws /\ twilio_stream_sid, phase, <<>>)
    /\ UNCHANGED <<connVars, error, previewVars, now, agentVars,
                   envVars, histVars>>
    /\ UNCHANGED <<tableVars, audio_buffer, svcVars>>

\* The agent's answer handled without the repetition check.
AgentBranchNoGuard(t, r) ==
    IF r.ask_user
    THEN IF r.message # <<>> THEN "ask_filler" ELSE "ask"
    ELSE IF r.message # <<>> THEN "auto" ELSE "noreply"

\* The agent's answer spoken whenever the action is not ask_user, a
\* missing message included.
AgentBranchSpeakEmpty(t, r) ==
    IF r.ask_user
    THEN IF r.message # <<>> THEN "ask_filler" ELSE "ask"
    ELSE IF is_repetition_loop(t, r.message) THEN "loop" ELSE "auto"

\* What process_stt does with the agent's answer.
AgentBranch(t, r) ==
    IF r.ask_user
    THEN IF r.message # <<>> THEN "ask_filler" ELSE "ask"
    ELSE IF r.message # <<>>
         THEN IF is_repetition_loop(t, r.message) THEN "loop" ELSE "auto"
         ELSE "noreply"

\* get_agent_response returned
AgentReturned(r) ==
    /\ pc_stt = "agent"
    /\ agent_message' = r.message
    /\ agent_action' = IF r.ask_user THEN "ask_user" ELSE "none"
    /\ LET branch == AgentBranch(transcript, r)
       IN /\ ask_pending' = IF r.ask_user THEN TRUE ELSE ask_pending
          /\ pc_stt' = CASE branch = "ask_filler" -> "filler_translate"
                         [] branch = "auto" -> "reply_translate"
                         [] OTHER -> "recv"
          /\ events' = CASE branch = "ask_filler" -> <<>>
                         [] branch = "auto" ->
                                notify_frontend(<<>>, "agent_suggests")
                         [] OTHER -> notify_frontend(<<>>, "waiting_for_user")
          /\ current_text' = IF branch \in {"ask_filler", "auto"}
                             THEN current_text ELSE TurnResetText(branch)
          /\ vad_silence_counter' = IF branch \in {"ask_filler", "auto"}
                                    THEN vad_silence_counter
                                    ELSE TurnResetCounter(branch)
    /\ UNCHANGED <<sessionVars, pc_tw, pc_fe, previewVars, now,
                   english_final, streams, utt_seq, envVars, turnHist,
                   stt_exit, n_user_responses>>
    /\ UNCHANGED <<tableVars, audio_buffer, svcVars>>

\* translate_to_french(agent_message) returned in the ask_user branch
FillerTranslated(french_filler) ==
    /\ pc_stt = "filler_translate"
    /\ SpeakBegin("filler", twilio_ws /\ twilio_stream_sid, phase, <<>>)
    /\ UNCHANGED <<SpeakFrame, error>>
    /\ UNCHANGED <<tableVars, audio_buffer, svcVars>>

\* translate_to_french(agent_message) returned in the normal flow
ReplyTranslated(french_response) ==
    /\ pc_stt = "reply_translate"
    /\ transcript' = add_transcript(transcript, "user", french_response,
                                    agent_message)
    /\ SpeakBegin("reply", twilio_ws /\ twilio_stream_sid, phase, <<>>)
    /\ UNCHANGED <<connVars, error, previewVars, now, agentVars,
                   envVars, histVars>>
    /\ UNCHANGED <<tableVars, audio_buffer, svcVars>>

\* an "end_of_stream" message
SttEndOfStream ==
    /\ events' = <<>>
    /\ pc_stt = "recv"
    /\ pc_stt' = "done"
    /\ stt_exit' = "end_of_stream"
    /\ UNCHANGED <<sessionVars, pc_tw, pc_fe, sttLocals, ioVars, turnHist,
                   ask_pending, n_user_responses>>
    /\ UNCHANGED <<tableVars, audio_buffer, svcVars>>

\* the transcription stream cannot be opened or raises: except Exception
SttError ==
    /\ events' = <<>>
    /\ pc_stt \in {"open", "recv"}
    /\ pc_stt' = "done"
    /\ stt_exit' = "error"
    /\ UNCHANGED <<sessionVars, pc_tw, pc_fe, sttLocals, ioVars, turnHist,
                   ask_pending, n_user_responses>>
    /\ UNCHANGED <<tableVars, audio_buffer, svcVars>>

\* ------------------------------------------------------ the call endpoints
\* dial_call, requested until a call is placed: the provider accepts the call
DialOk ==
    /\ events' = <<>>
    /\ ~twilio_call_sid
    /\ phase' = DIALING
    /\ twilio_call_sid' = TRUE
    /\ UNCHANGED <<transcript, twilio_ws, twilio_stream_sid, frontend_ws,
                   error, pcVars, sttLocals, ioVars, histVars>>
    /\ UNCHANGED <<tableVars, audio_buffer, svcVars>>

\* dial_call: initiate_media_stream_call raises
DialFail ==
    /\ events' = <<>>
    /\ ~twilio_call_sid
    /\ phase' = FAILED
    /\ error' = "dial"
    /\ UNCHANGED <<transcript, connVars, pcVars, sttLocals, ioVars, histVars>>
    /\ UNCHANGED <<tableVars, audio_buffer, svcVars>>

\* end_call_session: ENDED, call_ended to the frontend socket and its close
EndSession ==
    /\ phase' = ENDED
    /\ IF frontend_ws
       THEN events' = send_json(<<>>, "call_ended") /\ frontend_closed' = TRUE
       ELSE events' = <<>> /\ UNCHANGED frontend_closed
    /\ UNCHANGED <<transcript, connVars, error, pcVars, sttLocals, streams,
                   utt_seq, english_text, media_seen, histVars>>
    /\ UNCHANGED <<tableVars, audio_buffer, svcVars>>

\* ------------------------------------------------------ twilio_media_stream
\* the provider opens the media socket: CONNECTED, call_connected, and the
\* process_stt task is created
TwConnect ==
    /\ pc_tw = "idle"
    /\ twilio_call_sid
    /\ twilio_ws' = TRUE
    /\ phase' = CONNECTED
    /\ events' = notify_frontend(<<>>, "call_connected")
    /\ pc_tw' = "loop"
    /\ pc_stt' = "open"
    /\ UNCHANGED <<transcript, twilio_stream_sid, twilio_call_sid,
                   frontend_ws, error, pc_fe, sttLocals, streams, utt_seq,
                   envVars, histVars>>
    /\ UNCHANGED <<tableVars, audio_buffer, svcVars>>

\* event "start": the stream id, the greeting event and the greeting spoken
TwStart ==
    /\ pc_tw = "loop"
    /\ ~twilio_stream_sid
    /\ twilio_stream_sid' = TRUE
    /\ SpeakBegin("greeting", twilio_ws, WAITING_GREETING_RESPONSE,
                  notify_frontend(<<>>, "speaking_initial_greeting"))
    /\ UNCHANGED <<transcript, twilio_ws, twilio_call_sid, frontend_ws, error,
                   previewVars, now, agentVars,
                   envVars, histVars>>
    /\ UNCHANGED <<tableVars, audio_buffer, svcVars>>

\* asyncio.Queue(): maxsize 0, a queue without a limit
AudioQueueMaxsize == 0
TWILIO_PAYLOAD_SIZE == 160
GRADIUM_STT_CHUNK_SIZE == 1920

\* Queue.put on a queue of n frames: with maxsize <= 0 it never waits
put(n, maxsize) == IF maxsize <= 0 \/ n < maxsize THEN n + 1 ELSE n

\* event "media": the converted audio is queued for the transcription stream
TwMedia ==
    /\ events' = <<>>
    /\ pc_tw = "loop"
    /\ twilio_stream_sid
    /\ media_seen' = TRUE
    /\ audio_buffer' = put(audio_buffer, AudioQueueMaxsize)
    /\ UNCHANGED <<sessionVars, pcVars, sttLocals, streams, utt_seq,
                   frontend_closed, english_text, histVars, tableVars,
                   svcVars>>

\* audio_generator, pulled by the transcription stream while process_stt
\* runs: audio_queue.get() takes the oldest frame
AudioPull ==
    /\ events' = <<>>
    /\ pc_stt \notin {"idle", "done"}
    /\ audio_buffer > 0
    /\ audio_buffer' = audio_buffer - 1
    /\ UNCHANGED <<sessionVars, pcVars, sttLocals, ioVars, histVars,
                   tableVars, svcVars>>

\* finally: stt_task.cancel() and session.twilio_ws = None. The cancelled
\* task stops at the await it is suspended in, and with it the synthesis
\* stream it is forwarding.
MediaFinally ==
    /\ twilio_ws' = FALSE
    /\ pc_stt' = "done"
    /\ stt_exit' = IF pc_stt = "done" THEN stt_exit ELSE "cancelled"
    /\ streams' = {s \in streams : s.kind \notin SttKinds}
    /\ UNCHANGED <<transcript, twilio_stream_sid, twilio_call_sid,
                   frontend_ws, pc_fe, sttLocals, utt_seq, envVars,
                   turnHist, ask_pending, n_user_responses>>

\* event "stop": ENDED and call_ended
TwStop ==
    /\ pc_tw = "loop"
    /\ phase' = ENDED
    /\ events' = notify_frontend(<<>>, "call_ended")
    /\ pc_tw' = "stopped"
    /\ MediaFinally
    /\ UNCHANGED error
    /\ UNCHANGED <<tableVars, audio_buffer, svcVars>>

\* the socket closes without a stop event: iter_text() ends
TwDisconnect ==
    /\ events' = <<>>
    /\ pc_tw = "loop"
    /\ pc_tw' = "closed"
    /\ MediaFinally
    /\ UNCHANGED <<phase, error>>
    /\ UNCHANGED <<tableVars, audio_buffer, svcVars>>

\* a message that makes the handler raise (json.loads, b64decode):
\* except Exception sets the error and FAILED
TwBadMessage ==
    /\ events' = <<>>
    /\ pc_tw = "loop"
    /\ error' = "media"
    /\ phase' = FAILED
    /\ pc_tw' = "closed"
    /\ MediaFinally
    /\ UNCHANGED <<tableVars, audio_buffer, svcVars>>

\* ------------------------------------------------------- frontend_websocket
\* the frontend connects: session.frontend_ws and the session_state message
FeConnect ==
    /\ pc_fe = "idle"
    /\ frontend_ws' = TRUE
    /\ events' = send_json(<<>>, "session_state")
    /\ pc_fe' = "loop"
    /\ UNCHANGED <<phase, transcript, twilio_ws, twilio_stream_sid,
                   twilio_call_sid, error, pc_tw, pc_stt, sttLocals, streams,
                   utt_seq, envVars, histVars>>
    /\ UNCHANGED <<tableVars, audio_buffer, svcVars>>

\* message "user_response": an empty text is skipped, any other is translated
FeUserResponse(text) ==
    /\ events' = <<>>
    /\ pc_fe = "loop"
    /\ ~frontend_closed
    /\ n_user_responses < MaxUserResponses
    /\ n_user_responses' = n_user_responses + 1
    /\ IF text = <<>>
       THEN UNCHANGED <<english_text, pc_fe, ask_pending>>
       ELSE /\ english_text' = text
            /\ pc_fe' = "translate"
            /\ ask_pending' = FALSE
    /\ UNCHANGED <<sessionVars, pc_tw, pc_stt, sttLocals, streams, utt_seq,
                   frontend_closed, media_seen, turnHist,
                   stt_exit>>
    /\ UNCHANGED <<tableVars, audio_buffer, svcVars>>

\* translate_to_french returned: the transcript entry and the text spoken
FeTranslated(french_text) ==
    /\ pc_fe = "translate"
    /\ transcript' = add_transcript(transcript, "user", french_text,
                                    english_text)
    /\ SpeakBegin("human", twilio_ws /\ twilio_stream_sid, phase, <<>>)
    /\ UNCHANGED <<connVars, error, previewVars, now, agentVars,
                   envVars, histVars>>
    /\ UNCHANGED <<tableVars, audio_buffer, svcVars>>

\* A hangup that gives up when the provider's end-call request fails.
FeHangupAborted ==
    /\ pc_fe = "loop"
    /\ ~frontend_closed
    /\ events' = <<>>
    /\ frontend_ws' = FALSE
    /\ pc_fe' = "hungup"
    /\ UNCHANGED <<phase, transcript, twilio_ws, twilio_stream_sid,
                   twilio_call_sid, error, pc_tw, pc_stt, sttLocals, streams,
                   utt_seq, envVars, histVars>>
    /\ UNCHANGED <<tableVars, audio_buffer, svcVars>>

\* message "hangup": the call is ended at the provider, ENDED, call_ended
FeHangup ==
    /\ pc_fe = "loop"
    /\ ~frontend_closed
    /\ phase' = ENDED
    /\ events' = send_json(<<>>, "call_ended")
    /\ frontend_ws' = FALSE
    /\ pc_fe' = "hungup"
    /\ UNCHANGED <<transcript, twilio_ws, twilio_stream_sid, twilio_call_sid,
                   error, pc_tw, pc_stt, sttLocals, streams, utt_seq,
                   envVars, histVars>>
    /\ UNCHANGED <<tableVars, audio_buffer, svcVars>>

\* the frontend socket is closed: finally session.frontend_ws = None
FeDisconnect ==
    /\ events' = <<>>
    /\ pc_fe = "loop"
    /\ frontend_ws' = FALSE
    /\ pc_fe' = "closed"
    /\ UNCHANGED <<phase, transcript, twilio_ws, twilio_stream_sid,
                   twilio_call_sid, error, pc_tw, pc_stt, sttLocals, streams,
                   utt_seq, envVars, histVars>>
    /\ UNCHANGED <<tableVars, audio_buffer, svcVars>>

\* ------------------------------------------------------------ specifications
\* The whole call, from the session made by start_interactive_call. Here the
\* French translation service is unreachable (a text is spoken as given);
\* SpecStt and SpecAgent explore its answers.
Next ==
    \/ DialOk
    \/ DialFail
    \/ EndSession
    \/ TwConnect
    \/ TwStart
    \/ audio_buffer < MaxCallFrames /\ TwMedia
    \/ AudioPull
    \/ TwStop
    \/ TwDisconnect
    \/ TwBadMessage
    \/ SttOpen
    \/ \E c \in CallChunks, dt \in CallDelays :
           TurnDeltas < MaxCallDeltas /\ RecvText(c, dt)
    \/ \E en \in translate_to_english(current_text, CallEnglishAnswers) :
           PreviewTranslated(en)
    \/ \E p \in CallVadProbs : n_turns < MaxCallTurns /\ RecvStep(p)
    \/ \E en \in translate_to_english(current_text, CallEnglishAnswers) :
           FinalTranslated(en)
    \/ \E fr \in translate_to_french(UserQuestion, {}) : QuestionTranslated(fr)
    \/ \E r \in AgentResults({<<>>, ReplyA}) : AgentReturned(r)
    \/ \E fr \in translate_to_french(agent_message, {}) : FillerTranslated(fr)
    \/ \E fr \in translate_to_french(agent_message, {}) : ReplyTranslated(fr)
    \/ SttEndOfStream
    \/ SttError
    \/ \E s \in streams : TtsOpened(s)
    \/ \E s \in streams : TtsChunk(s)
    \/ \E s \in streams : TtsEnd(s)
    \/ \E s \in streams : TtsFail(s)
    \/ FeConnect
    \/ \E t \in CallUserResponses : FeUserResponse(t)
    \/ \E fr \in translate_to_french(english_text, {}) : FeTranslated(fr)
    \/ FeHangup
    \/ FeDisconnect

Spec == Init /\ [][Next]_vars

\* process_stt and speak_to_caf alone, from the state in which the greeting
\* exchange is over (the counterparty answered the greeting with ChunkOui,
\* the real question was spoken) and both sockets stay open.
InitListening ==
    /\ phase = CAF_SPEAKING
    /\ transcript = <<TranscriptEntry("caf", ChunkOui, EnOk),
                      TranscriptEntry("user", FrGeneric, UserQuestion)>>
    /\ twilio_ws = TRUE
    /\ twilio_stream_sid = TRUE
    /\ twilio_call_sid = TRUE
    /\ frontend_ws \in BOOLEAN
    /\ error = "none"
    /\ pc_tw = "loop"
    /\ pc_stt = "recv"
    /\ pc_fe = IF frontend_ws THEN "loop" ELSE "idle"
    /\ current_text = <<>>
    /\ last_translated_text = <<>>
    /\ last_translation = <<>>
    /\ last_translation_time = 0
    /\ vad_silence_counter = 0
    /\ now = EpochStart
    /\ english_final = EnOk
    /\ agent_message = <<>>
    /\ agent_action = "none"
    /\ english_text = <<>>
    /\ streams = {}
    /\ utt_seq = 2
    /\ events = <<[type |-> "finished_speaking", sent |-> frontend_ws]>>
    /\ frontend_closed = FALSE
    /\ silence_streak = 3
    /\ silent_since_text = 3
    /\ lastMsg = "hardpause"
    /\ turnCovered = 0
    /\ turnText = ChunkOui
    /\ pvLen = 0
    /\ pvTime = -1
    /\ turnDeltas = 1
    /\ media_seen = TRUE
    /\ n_turns = 1
    /\ tr_en_calls = 1
    /\ gates_met = 0
    /\ stt_exit = "none"
    /\ ask_pending = FALSE
    /\ n_user_responses = 0
    /\ audio_buffer = 0
    /\ sessions = NoSessions
    /\ tasks = NoSessions
    /\ reply = NoReply
    /\ ServicesIdle

NextStt ==
    \/ \E c \in FrenchChunks, dt \in Delays :
           TurnDeltas < MaxSttDeltas /\ RecvText(c, dt)
    \/ \E en \in translate_to_english(current_text, EnglishAnswers) :
           PreviewTranslated(en)
    \/ \E p \in VadProbs \cup {NoVad} : n_turns < MaxSttTurns /\ RecvStep(p)
    \/ \E en \in translate_to_english(current_text, EnglishAnswers) :
           FinalTranslated(en)
    \/ \E r \in AgentResults({<<>>, ReplyA}) : AgentReturned(r)
    \/ \E fr \in translate_to_french(agent_message, FrenchAnswers) :
           FillerTranslated(fr)
    \/ \E fr \in translate_to_french(agent_message, FrenchAnswers) :
           ReplyTranslated(fr)
    \/ SttEndOfStream
    \/ SttError
    \/ \E s \in streams : TtsOpened(s)
    \/ \E s \in streams : TtsChunk(s)
    \/ \E s \in streams : TtsEnd(s)
    \/ \E s \in streams : TtsFail(s)

SpecStt == InitListening /\ [][NextStt]_vars

\* The agent-mediated turns with an observer: process_stt, speak_to_caf and
\* the observer's user_response, from the same state as SpecStt.
NextAgent ==
    \/ \E dt \in CallDelays :
           TurnDeltas < MaxCallDeltas /\ RecvText(ChunkLong, dt)
    \/ \E en \in translate_to_english(current_text, EnglishAnswers) :
           PreviewTranslated(en)
    \/ \E p \in CallVadProbs : n_turns < MaxAgentTurns /\ RecvStep(p)
    \/ \E en \in translate_to_english(current_text, EnglishAnswers) :
           FinalTranslated(en)
    \/ \E r \in AgentResults({ReplyC}) : AgentReturned(r)
    \/ \E fr \in translate_to_french(agent_message, FrenchAnswers) :
           FillerTranslated(fr)
    \/ \E fr \in translate_to_french(agent_message, FrenchAnswers) :
           ReplyTranslated(fr)
    \/ \E s \in streams : TtsOpened(s)
    \/ \E s \in streams : TtsChunk(s)
    \/ \E s \in streams : TtsEnd(s)
    \/ \E s \in streams : TtsFail(s)
    \/ \E t \in UserResponses : FeUserResponse(t)
    \/ \E fr \in translate_to_french(english_text, FrenchAnswers) :
           FeTranslated(fr)

SpecAgent == InitListening /\ [][NextAgent]_vars

\* is_repetition_loop applied by process_stt to the agent's answer, over
\* transcripts a call can have when the agent returns: the greeting exchange,
\* then one or two counterparty turns with a spoken or typed user text between.
LoopCafTexts == {EnOk, EnLong, EnLongAck, <<>>}
LoopUserTexts == {ReplyA, ReplyC}
LoopReplies == {ReplyA, ReplyC, ReplyPadded}
GreetingExchange == <<TranscriptEntry("caf", ChunkOui, EnOk),
                      TranscriptEntry("user", FrGeneric, UserQuestion)>>
LoopTranscripts ==
    {Append(GreetingExchange, TranscriptEntry("caf", ChunkMid, c)) :
        c \in LoopCafTexts}
    \cup {GreetingExchange \o <<TranscriptEntry("caf", ChunkMid, c[1]),
                                TranscriptEntry("user", FrGeneric, u),
                                TranscriptEntry("caf", ChunkMid, c[2])>> :
             c \in LoopCafTexts \X LoopCafTexts, u \in LoopUserTexts}

InitLoop ==
    /\ transcript \in LoopTranscripts
    /\ phase = WAITING_USER
    /\ twilio_ws = TRUE
    /\ twilio_stream_sid = TRUE
    /\ twilio_call_sid = TRUE
    /\ frontend_ws \in BOOLEAN
    /\ error = "none"
    /\ pc_tw = "loop"
    /\ pc_stt = "agent"
    /\ pc_fe = IF frontend_ws THEN "loop" ELSE "idle"
    /\ current_text = ChunkMid
    /\ last_translated_text = <<>>
    /\ last_translation = <<>>
    /\ last_translation_time = 0
    /\ vad_silence_counter = SILENCE_THRESHOLD
    /\ now = EpochStart
    /\ english_final = transcript[Len(transcript)].english_text
    /\ agent_message = <<>>
    /\ agent_action = "none"
    /\ english_text = <<>>
    /\ streams = {}
    /\ utt_seq = 2
    /\ events = <<[type |-> "caf_finished", sent |-> frontend_ws],
                  [type |-> "agent_thinking", sent |-> frontend_ws]>>
    /\ frontend_closed = FALSE
    /\ silence_streak = SILENCE_THRESHOLD
    /\ silent_since_text = SILENCE_THRESHOLD
    /\ lastMsg = "hardpause"
    /\ turnCovered = 0
    /\ turnText = ChunkMid
    /\ pvLen = 0
    /\ pvTime = -1
    /\ turnDeltas = 1
    /\ media_seen = TRUE
    /\ n_turns = (Len(transcript) - 1) \div 2 + 1
    /\ tr_en_calls = n_turns
    /\ gates_met = 0
    /\ stt_exit = "running"
    /\ ask_pending = FALSE
    /\ n_user_responses = 0
    /\ audio_buffer = 0
    /\ sessions = NoSessions
    /\ tasks = NoSessions
    /\ reply = NoReply
    /\ ServicesIdle

NextLoop == \E r \in AgentResults(LoopReplies \cup {<<>>}) : AgentReturned(r)

SpecLoop == InitLoop /\ [][NextLoop]_vars

\* The end of a call: the three activities of a call in progress, with the
\* telephony socket's stop, close and bad message, the observer's messages
\* and the end-session endpoint.
NextCancel ==
    \/ TwStop
    \/ TwDisconnect
    \/ TwBadMessage
    \/ \E dt \in CallDelays :
           TurnDeltas < MaxCallDeltas /\ RecvText(ChunkMid, dt)
    \/ \E p \in CallVadProbs : n_turns < MaxCallTurns /\ RecvStep(p)
    \/ \E en \in translate_to_english(current_text, {}) : FinalTranslated(en)
    \/ \E r \in AgentResults({ReplyC}) : AgentReturned(r)
    \/ \E fr \in translate_to_french(agent_message, {}) : FillerTranslated(fr)
    \/ \E fr \in translate_to_french(agent_message, {}) : ReplyTranslated(fr)
    \/ SttEndOfStream
    \/ SttError
    \/ \E s \in streams : TtsOpened(s)
    \/ \E s \in streams : TtsChunk(s)
    \/ \E s \in streams : TtsEnd(s)
    \/ \E s \in streams : TtsFail(s)
    \/ FeConnect
    \/ \E t \in CallUserResponses : FeUserResponse(t)
    \/ \E fr \in translate_to_french(english_text, {}) : FeTranslated(fr)
    \/ FeHangup
    \/ FeDisconnect
    \/ EndSession

\* The event loop runs every coroutine that is ready, and every round trip to
\* the translation, agent and synthesis services returns (each has a
\* timeout); the observer listener's receive ends once end_call_session has
\* closed its socket. What the telephony provider, the transcription stream
\* and the observer send next is not the program's to decide.
FairCancel ==
    /\ WF_vars(\E en \in translate_to_english(current_text, {}) :
                   FinalTranslated(en))
    /\ WF_vars(\E r \in AgentResults({ReplyC}) : AgentReturned(r))
    /\ WF_vars(\E fr \in translate_to_french(agent_message, {}) :
                   FillerTranslated(fr))
    /\ WF_vars(\E fr \in translate_to_french(agent_message, {}) :
                   ReplyTranslated(fr))
    /\ WF_vars(\E fr \in translate_to_french(english_text, {}) :
                   FeTranslated(fr))
    /\ WF_vars(\E s \in streams : TtsOpened(s) \/ TtsChunk(s) \/ TtsEnd(s))
    /\ WF_vars(frontend_closed /\ FeDisconnect)

SpecCancel == InitListening /\ [][NextCancel]_vars /\ FairCancel

\* The inbound audio of a call in progress: the media handler queues the
\* frames, audio_generator takes them while process_stt runs, and process_stt
\* goes through its turns, ends with the transcription stream or fails.
NextQueue ==
    \/ audio_buffer < MaxQueueFrames /\ TwMedia
    \/ AudioPull
    \/ \E dt \in CallDelays :
           TurnDeltas < MaxCallDeltas /\ RecvText(ChunkMid, dt)
    \/ \E p \in CallVadProbs : n_turns < MaxCallTurns /\ RecvStep(p)
    \/ \E en \in translate_to_english(current_text, {}) : FinalTranslated(en)
    \/ \E r \in AgentResults({<<>>}) : AgentReturned(r)
    \/ SttEndOfStream
    \/ SttError
    \/ TwStop

SpecQueue == InitListening /\ [][NextQueue]_vars

\* --------------------------------------------------------- the session table
\* All calls of the process: _sessions maps a call id to its session, and
\* every operation finds its session with get_session(call_id). A media
\* handler and an observer handler keep the session they found and their own
\* locals for as long as they run. A handler's round trips (translation,
\* agent, synthesis) are taken together with the code around them here: the
\* steps between them are those of Spec.
\* Call ids are numbered in the order create_session makes them; None (0) is
\* no session. The sessions file is not part of this table.
CallIds == 1..(MaxSessions + 1)
TableChunks == {ChunkLong}

Extend(f, k, v) == [x \in DOMAIN f \cup {k} |-> IF x = k THEN v ELSE f[x]]
Remove(f, k) == [x \in DOMAIN f \ {k} |-> f[x]]

\* create_session, then the fields start_interactive_call sets
NewSession ==
    [phase |-> READY_TO_CALL, transcript |-> <<>>, error |-> "none",
     twilio_ws |-> FALSE, twilio_stream_sid |-> FALSE,
     twilio_call_sid |-> FALSE, frontend_ws |-> FALSE]

\* twilio_media_stream after the lookup: the session it holds, its audio
\* buffer, and the locals process_stt starts with
NewTask(s) ==
    [session |-> s, audio_buffer |-> 0, current_text |-> <<>>,
     last_translated_text |-> <<>>, vad_silence_counter |-> 0,
     running |-> TRUE]

\* A lookup that falls back to a session of the table when the id is missing.
get_session_or_any(table, call_id) ==
    IF call_id \in DOMAIN table THEN call_id
    ELSE IF DOMAIN table # {} THEN CHOOSE k \in DOMAIN table : TRUE
    ELSE None

\* A lookup that answers one session of the table whatever the id.
get_session_single(table, call_id) ==
    IF DOMAIN table # {} THEN CHOOSE k \in DOMAIN table : TRUE ELSE None

\* get_session: _sessions.get(call_id), the session (named by its key) or None
get_session(table, call_id) ==
    IF call_id \in DOMAIN table THEN call_id ELSE None

\* The answer to an operation: to an HTTP request its status, to the opening
\* of a socket 101 or the close code, to a message on a socket none (0).
Answer(call_id, op, code) ==
    reply' = [call |-> call_id, op |-> op, code |-> code]

\* "Session not found": HTTP 404, or close code 4004 on a socket
NotFound(call_id, op, code) ==
    /\ Answer(call_id, op, code)
    /\ UNCHANGED <<sessions, tasks>>

\* speak_to_caf(session, text), from its call to its return: nothing without
\* a telephony connection, else USER_SPEAKING and, the stream over,
\* CAF_SPEAKING, or the error when synthesis fails
Spoken(sess, ok) ==
    IF ~(sess.twilio_ws /\ sess.twilio_stream_sid) THEN sess
    ELSE IF ok THEN [sess EXCEPT !.phase = CAF_SPEAKING]
    ELSE [sess EXCEPT !.phase = USER_SPEAKING, !.error = "tts"]

\* start_interactive_call
TableStart(c) ==
    /\ c \notin DOMAIN sessions
    /\ Cardinality(DOMAIN sessions) < MaxSessions
    /\ sessions' = Extend(sessions, c, NewSession)
    /\ Answer(c, "start", 200)
    /\ UNCHANGED <<tasks, callVars, svcVars>>

\* dial_call
TableDial(call_id, placed) ==
    /\ LET session == get_session(sessions, call_id)
       IN IF session = None THEN NotFound(call_id, "http", 404)
          ELSE /\ ~sessions[session].twilio_call_sid
               /\ sessions' =
                    [sessions EXCEPT ![session] =
                        IF placed
                        THEN [@ EXCEPT !.phase = DIALING,
                                       !.twilio_call_sid = TRUE]
                        ELSE [@ EXCEPT !.phase = FAILED, !.error = "dial"]]
               /\ Answer(call_id, "http", IF placed THEN 200 ELSE 500)
               /\ UNCHANGED tasks
    /\ UNCHANGED <<callVars, svcVars>>

\* get_call_session
TableGet(call_id) ==
    /\ LET session == get_session(sessions, call_id)
       IN IF session = None THEN NotFound(call_id, "http", 404)
          ELSE Answer(call_id, "http", 200) /\ UNCHANGED <<sessions, tasks>>
    /\ UNCHANGED <<callVars, svcVars>>

\* end_call_session
TableEnd(call_id) ==
    /\ LET session == get_session(sessions, call_id)
       IN IF session = None THEN NotFound(call_id, "http", 404)
          ELSE /\ sessions' = [sessions EXCEPT ![session].phase = ENDED]
               /\ Answer(call_id, "http", 200)
               /\ UNCHANGED tasks
    /\ UNCHANGED <<callVars, svcVars>>

\* twilio_media_stream up to its receive loop
TableMediaConnect(call_id) ==
    /\ <<"media", call_id>> \notin DOMAIN tasks
    /\ LET session == get_session(sessions, call_id)
       IN IF session = None THEN NotFound(call_id, "socket", 4004)
          ELSE /\ sessions' =
                    [sessions EXCEPT ![session] =
                        [@ EXCEPT !.twilio_ws = TRUE, !.phase = CONNECTED]]
               /\ tasks' = Extend(tasks, <<"media", call_id>>,
                                  NewTask(session))
               /\ Answer(call_id, "socket", 101)
    /\ UNCHANGED <<callVars, svcVars>>

\* twilio_media_stream, event "start": the stream id and the greeting spoken
TableMediaStart(call_id, ok) ==
    /\ <<"media", call_id>> \in DOMAIN tasks
    /\ LET session == tasks[<<"media", call_id>>].session
       IN /\ ~sessions[session].twilio_stream_sid
          /\ sessions' =
               [sessions EXCEPT ![session] =
                   LET spoken == Spoken([@ EXCEPT !.twilio_stream_sid = TRUE],
                                        ok)
                   IN [spoken EXCEPT !.phase = WAITING_GREETING_RESPONSE]]
    /\ Answer(call_id, "message", 0)
    /\ UNCHANGED <<tasks, callVars, svcVars>>

\* twilio_media_stream, event "media"
TableMediaFrame(call_id) ==
    /\ <<"media", call_id>> \in DOMAIN tasks
    /\ tasks[<<"media", call_id>>].audio_buffer < MaxTableFrames
    /\ tasks' = [tasks EXCEPT ![<<"media", call_id>>].audio_buffer =
                     put(@, AudioQueueMaxsize)]
    /\ Answer(call_id, "message", 0)
    /\ UNCHANGED <<sessions, callVars, svcVars>>

\* twilio_media_stream, event "stop", and its finally
TableMediaStop(call_id) ==
    /\ <<"media", call_id>> \in DOMAIN tasks
    /\ LET session == tasks[<<"media", call_id>>].session
       IN sessions' = [sessions EXCEPT ![session] =
                          [@ EXCEPT !.phase = ENDED, !.twilio_ws = FALSE]]
    /\ tasks' = Remove(tasks, <<"media", call_id>>)
    /\ Answer(call_id, "message", 0)
    /\ UNCHANGED <<callVars, svcVars>>

\* process_stt, a "text" message: the text accumulated and, both gates
\* holding, the preview's bookkeeping
TableText(call_id, french_chunk, time_since_last) ==
    /\ <<"media", call_id>> \in DOMAIN tasks
    /\ LET task == tasks[<<"media", call_id>>]
           text == Accumulate(task.current_text, french_chunk)
       IN /\ task.running
          /\ Len(task.current_text) < MaxTableTextLen
          /\ tasks' =
               [tasks EXCEPT ![<<"media", call_id>>] =
                   IF french_chunk = <<>> \/ Len(Strip(french_chunk)) < 1
                   THEN task
                   ELSE IF PreviewGate(Len(text)
                                         - Len(task.last_translated_text),
                                       time_since_last)
                   THEN [task EXCEPT !.current_text = text,
                                     !.last_translated_text = text]
                   ELSE [task EXCEPT !.current_text = text]]
    /\ Answer(call_id, "message", 0)
    /\ UNCHANGED <<sessions, callVars, svcVars>>

\* The session and the locals after a hard pause: the counterparty entry,
\* then the call ended, the real question spoken, or the agent's answer
\* handled.
TurnEnd(sess, task, english, r, ok) ==
    LET heard == [sess EXCEPT !.transcript =
                      add_transcript(@, "caf", task.current_text, english)]
        branch == TurnBranch(task.current_text, english, sess.phase)
        reset == [task EXCEPT !.current_text = <<>>,
                              !.vad_silence_counter = 0]
    IN CASE branch = "hangup" ->
                <<[heard EXCEPT !.phase = ENDED],
                  [task EXCEPT !.running = FALSE]>>
         [] branch = "greeting" ->
                <<[Spoken([heard EXCEPT !.transcript =
                               add_transcript(@, "user", UserQuestion,
                                              UserQuestion)], ok)
                      EXCEPT !.phase = CAF_SPEAKING],
                  reset>>
         [] OTHER ->
                IF AgentBranch(heard.transcript, r) = "auto"
                THEN <<Spoken([heard EXCEPT
                                  !.phase = WAITING_USER,
                                  !.transcript =
                                      add_transcript(@, "user", r.message,
                                                     r.message)], ok),
                       reset>>
                ELSE IF AgentBranch(heard.transcript, r) = "ask_filler"
                THEN <<Spoken([heard EXCEPT !.phase = WAITING_USER], ok),
                       reset>>
                ELSE <<[heard EXCEPT !.phase = WAITING_USER], reset>>

\* process_stt, a "step" message with a VAD sample
TableStep(call_id, inactivity_prob, r, ok) ==
    /\ <<"media", call_id>> \in DOMAIN tasks
    /\ LET task == tasks[<<"media", call_id>>]
           session == task.session
           counter == NextSilence(task.vad_silence_counter, inactivity_prob)
           counted == [task EXCEPT !.vad_silence_counter = counter]
       IN /\ task.running
          /\ counter <= MaxSilence
          /\ IF HardPause(counter, task.current_text)
             THEN /\ Len(sessions[session].transcript) < MaxTableEntries
                  /\ \E english \in translate_to_english(task.current_text, {}) :
                        \E after \in {TurnEnd(sessions[session], counted,
                                              english, r, ok)} :
                           /\ sessions' =
                                [sessions EXCEPT ![session] = after[1]]
                           /\ tasks' =
                                [tasks EXCEPT ![<<"media", call_id>>] =
                                    after[2]]
             ELSE /\ tasks' = [tasks EXCEPT ![<<"media", call_id>>] = counted]
                  /\ UNCHANGED sessions
    /\ Answer(call_id, "message", 0)
    /\ UNCHANGED <<callVars, svcVars>>

\* frontend_websocket up to its receive loop
TableWsConnect(call_id) ==
    /\ <<"ws", call_id>> \notin DOMAIN tasks
    /\ LET session == get_session(sessions, call_id)
       IN IF session = None THEN NotFound(call_id, "socket", 4004)
          ELSE /\ sessions' = [sessions EXCEPT ![session].frontend_ws = TRUE]
               /\ tasks' = Extend(tasks, <<"ws", call_id>>,
                                  [session |-> session])
               /\ Answer(call_id, "socket", 101)
    /\ UNCHANGED <<callVars, svcVars>>

\* frontend_websocket, message "user_response"
TableUserResponse(call_id, english, ok) ==
    /\ <<"ws", call_id>> \in DOMAIN tasks
    /\ LET session == tasks[<<"ws", call_id>>].session
       IN IF english = <<>>
          THEN UNCHANGED sessions
          ELSE /\ Len(sessions[session].transcript) < MaxTableEntries
               /\ \E french \in translate_to_french(english, {}) :
                     sessions' =
                       [sessions EXCEPT ![session] =
                           Spoken([@ EXCEPT !.transcript =
                                       add_transcript(@, "user", french,
                                                      english)], ok)]
    /\ Answer(call_id, "message", 0)
    /\ UNCHANGED <<tasks, callVars, svcVars>>

\* frontend_websocket, message "hangup", and its finally
TableHangup(call_id) ==
    /\ <<"ws", call_id>> \in DOMAIN tasks
    /\ LET session == tasks[<<"ws", call_id>>].session
       IN sessions' = [sessions EXCEPT ![session] =
                          [@ EXCEPT !.phase = ENDED, !.frontend_ws = FALSE]]
    /\ tasks' = Remove(tasks, <<"ws", call_id>>)
    /\ Answer(call_id, "message", 0)
    /\ UNCHANGED <<callVars, svcVars>>

\* frontend_websocket, the socket closes, and its finally
TableWsClose(call_id) ==
    /\ <<"ws", call_id>> \in DOMAIN tasks
    /\ LET session == tasks[<<"ws", call_id>>].session
       IN sessions' = [sessions EXCEPT ![session].frontend_ws = FALSE]
    /\ tasks' = Remove(tasks, <<"ws", call_id>>)
    /\ Answer(call_id, "message", 0)
    /\ UNCHANGED <<callVars, svcVars>>

\* What the clients of a call do, for a call id that has a session: the
\* observer connects before it dials (dial_call is "separate from start so
\* frontend can connect WebSocket first") and closes its socket after the
\* call, the session is dialled once, the provider connects after the dial,
\* VAD samples are followed once the counterparty has spoken in the turn, and
\* the call is ended while it is in conversation. Any id may be named.
InPhase(c, phases) == c \in DOMAIN sessions => sessions[c].phase \in phases
Conversation == {WAITING_GREETING_RESPONSE, CAF_SPEAKING, WAITING_USER}
Observed(c) == c \in DOMAIN sessions => <<"ws", c>> \in DOMAIN tasks
HasText(c) ==
    /\ <<"media", c>> \in DOMAIN tasks
    /\ tasks[<<"media", c>>].current_text # <<>>

NextTable ==
    \/ \E c \in CallIds :
           c = Cardinality(DOMAIN sessions) + 1 /\ TableStart(c)
    \/ \E c \in CallIds, placed \in BOOLEAN :
           InPhase(c, {READY_TO_CALL}) /\ Observed(c) /\ TableDial(c, placed)
    \/ \E c \in CallIds : TableGet(c)
    \/ \E c \in CallIds : InPhase(c, Conversation) /\ TableEnd(c)
    \/ \E c \in CallIds : InPhase(c, {DIALING}) /\ TableMediaConnect(c)
    \/ \E c \in CallIds : TableMediaStart(c, TRUE)
    \/ \E c \in CallIds : TableMediaFrame(c)
    \/ \E c \in CallIds : InPhase(c, Conversation) /\ TableMediaStop(c)
    \/ \E c \in CallIds, chunk \in TableChunks :
           TableText(c, chunk, PreviewMinElapsed + 1)
    \/ \E c \in CallIds, p \in CallVadProbs, r \in AgentResults({<<>>}) :
           HasText(c) /\ TableStep(c, p, r, TRUE)
    \/ \E c \in CallIds : InPhase(c, {READY_TO_CALL}) /\ TableWsConnect(c)
    \/ \E c \in CallIds, t \in CallUserResponses :
           TableUserResponse(c, t, TRUE)
    \/ \E c \in CallIds : InPhase(c, Conversation) /\ TableHangup(c)
    \/ \E c \in CallIds : InPhase(c, {ENDED, FAILED}) /\ TableWsClose(c)

SpecTable == Init /\ [][NextTable]_vars

\* ---------------------------------------------------------------- services
\* The operations that run outside a call's coroutines: the sessions file
\* read back, the chat endpoint's bookkeeping, the audio chunkers, the agent
\* backend's client and the recorded-call flow. One of them runs from
\* InitServices.

\* CallSession.to_dict: the record written for a session. phase.value is the
\* phase's string and isoformat the text of a timestamp; the pre-call fields
\* (caf_number, user_name, user_question, twilio_call_sid) are copied like
\* target.
to_dict(self) ==
    LET isoformat(t) == <<"T", t>>
        entry(t) == [speaker |-> t.speaker, french_text |-> t.french_text,
                     english_text |-> t.english_text,
                     timestamp |-> isoformat(t.timestamp)]
    IN [call_id |-> self.call_id,
        phase |-> self.phase,
        target |-> self.target,
        transcript |-> [i \in 1..Len(self.transcript) |->
                           entry(self.transcript[i])],
        error |-> self.error,
        created_at |-> isoformat(self.created_at)]

\* CallSession.from_dict: the session reconstructed from a record; a key the
\* record lacks gives the default, an unknown phase gives ENDED, a missing
\* timestamp the time of loading.
from_dict(data) ==
    LET get(d, k, default) == IF k \in DOMAIN d THEN d[k] ELSE default
        fromisoformat(x) == x[2]
        now_ == MaxStamp + 1
        entry(t) ==
            [speaker |-> t.speaker,
             french_text |-> IF "french_text" \in DOMAIN t THEN t.french_text
                             ELSE get(t, "french", <<>>),
             english_text |-> IF "english_text" \in DOMAIN t
                              THEN t.english_text
                              ELSE get(t, "english", <<>>),
             timestamp |-> IF "timestamp" \in DOMAIN t
                           THEN fromisoformat(t.timestamp) ELSE now_]
    IN [call_id |-> data.call_id,
        target |-> get(data, "target", "caf"),
        error |-> get(data, "error", "none"),
        dify_conversation_id |-> get(data, "dify_conversation_id", None),
        phase |-> IF "phase" \in DOMAIN data
                  THEN IF data.phase \in CallPhase THEN data.phase ELSE ENDED
                  ELSE GATHERING_INFO,
        created_at |-> IF "created_at" \in DOMAIN data
                       THEN fromisoformat(data.created_at) ELSE now_,
        transcript |-> IF "transcript" \in DOMAIN data
                       THEN [i \in 1..Len(data.transcript) |->
                                entry(data.transcript[i])]
                       ELSE <<>>]

\* The sessions a process may hold when it saves: any phase, a transcript of
\* up to MaxSaved entries, with or without an error and a conversation with
\* the agent backend.
SavedSessions ==
    LET entries == [speaker : {"caf", "user"}, french_text : {ChunkOui},
                    english_text : {EnOk}, timestamp : 0..MaxStamp]
        transcripts == UNION {[1..n -> entries] : n \in 0..MaxSaved}
    IN [call_id : {1}, phase : CallPhase, target : {"caf", "impots"},
        transcript : transcripts, error : {"none", "dial"},
        created_at : 0..MaxStamp, dify_conversation_id : {None, 1}]

\* save_all_sessions then load_sessions: the session written with to_dict
\* and read back with from_dict
LoadSessions ==
    /\ svc = "load"
    /\ record.call_id # None
    /\ loaded.call_id = None
    /\ loaded' = from_dict(to_dict(record))
    /\ UNCHANGED record
    /\ UNCHANGED <<callVars, tableVars, svc, cs, file, conversations,
                   audio_data, chunk_size, chunks, pcm_queue, stt_frames,
                   dify_conv, dify_requests, dify_result, session_status,
                   session_error, pc_flow, pc_rec>>

\* create_session, then the fields start_interactive_call sets: the session
\* is saved as it is constructed, in GATHERING_INFO.
StartCall ==
    /\ svc = "store"
    /\ cs.call_id = None
    /\ \E created \in {[call_id |-> 1, phase |-> GATHERING_INFO,
                         target |-> "caf", transcript |-> <<>>,
                         error |-> "none", created_at |-> 0,
                         dify_conversation_id |-> None]} :
          /\ file' = to_dict(created)
          /\ cs' = [created EXCEPT !.phase = READY_TO_CALL]
    /\ UNCHANGED <<callVars, tableVars, svc, record, loaded, conversations,
                   audio_data, chunk_size, chunks, pcm_queue, stt_frames,
                   dify_conv, dify_requests, dify_result, session_status,
                   session_error, pc_flow, pc_rec>>

\* dial_call: the phase, and the error when the call cannot be placed
DialCall(placed) ==
    /\ svc = "store"
    /\ cs.call_id # None
    /\ cs.phase = READY_TO_CALL
    /\ cs' = IF placed THEN [cs EXCEPT !.phase = DIALING]
             ELSE [cs EXCEPT !.phase = FAILED, !.error = "dial"]
    /\ UNCHANGED file
    /\ UNCHANGED <<callVars, tableVars, svc, record, loaded, conversations,
                   audio_data, chunk_size, chunks, pcm_queue, stt_frames,
                   dify_conv, dify_requests, dify_result, session_status,
                   session_error, pc_flow, pc_rec>>

\* frontend_websocket, message "user_response", with no telephony
\* connection: add_transcript appends and saves, speak_to_caf returns at once
UserResponse(english, at) ==
    /\ svc = "store"
    /\ cs.call_id # None
    /\ english # <<>>
    /\ Len(cs.transcript) < MaxSaved
    /\ \E french \in translate_to_french(english, {}) :
          cs' = [cs EXCEPT !.transcript =
                    Append(@, [speaker |-> "user", french_text |-> french,
                               english_text |-> english, timestamp |-> at])]
    /\ file' = to_dict(cs')
    /\ UNCHANGED <<callVars, tableVars, svc, record, loaded, conversations,
                   audio_data, chunk_size, chunks, pcm_queue, stt_frames,
                   dify_conv, dify_requests, dify_result, session_status,
                   session_error, pc_flow, pc_rec>>

\* process_audio once the audio is transcribed and the agent backend has
\* answered (a failure of either answers 500 before any bookkeeping): the
\* conversation is found or created and the transcript and the explanation
\* are added, then the same lines run a second time. Conversation ids are
\* numbered in the order create_conversation makes them.
ProcessAudio(conversation_id, explanation, dify_id, ok) ==
    /\ svc = "audio"
    /\ Cardinality(DOMAIN conversations) < MaxConversations
    /\ \A c \in DOMAIN conversations :
           Len(conversations[c].messages) < MaxMessages
    /\ LET get_conversation(table, conv_id) ==
               IF conv_id \in DOMAIN table THEN conv_id ELSE None
           create_conversation(table) ==
               Extend(table, Cardinality(DOMAIN table) + 1,
                      [messages |-> <<>>, dify_conversation_id |-> dify_id])
           add_message(table, c, role) ==
               [table EXCEPT ![c].messages = Append(@, role)]
           add_both(table, c) ==
               IF explanation # <<>>
               THEN add_message(add_message(table, c, "user"), c, "assistant")
               ELSE add_message(table, c, "user")
           found1 == IF conversation_id # None
                     THEN get_conversation(conversations, conversation_id)
                     ELSE None
           table1 == IF found1 = None
                     THEN create_conversation(conversations)
                     ELSE IF dify_id # None
                             /\ conversations[found1].dify_conversation_id
                                  # dify_id
                     THEN [conversations EXCEPT
                              ![found1].dify_conversation_id = dify_id]
                     ELSE conversations
           session1 == IF found1 = None THEN Cardinality(DOMAIN table1)
                       ELSE found1
           table2 == add_both(table1, session1)
           found2 == IF conversation_id # None
                     THEN get_conversation(table2, conversation_id)
                     ELSE None
           table3 == IF found2 = None THEN create_conversation(table2)
                     ELSE table2
           session2 == IF found2 = None THEN Cardinality(DOMAIN table3)
                       ELSE found2
       IN conversations' = IF ok THEN add_both(table3, session2)
                           ELSE conversations
    /\ UNCHANGED <<callVars, tableVars, svc, record, loaded, cs, file,
                   audio_data, chunk_size, chunks, pcm_queue, stt_frames,
                   dify_conv, dify_requests, dify_result, session_status,
                   session_error, pc_flow, pc_rec>>

\* A chunker that keeps only the full chunks.
chunk_audio_full(data, size) ==
    [k \in 1..(Len(data) \div size) |->
        SubSeq(data, (k - 1) * size + 1, k * size)]

\* chunk_audio: [audio_data[i : i + chunk_size] for i in range(0,
\* len(audio_data), chunk_size)]; a slice stops at the end of the data
chunk_audio(data, size) ==
    LET starts == {i \in 0..(Len(data) - 1) : i % size = 0}
        slice(i) == SubSeq(data, i + 1,
                           IF i + size < Len(data) THEN i + size
                           ELSE Len(data))
    IN [k \in 1..Cardinality(starts) |-> slice((k - 1) * size)]

\* A call of chunk_audio
ChunkAudio ==
    /\ svc = "chunk"
    /\ chunks' = chunk_audio(audio_data, chunk_size)
    /\ svc' = "chunked"
    /\ UNCHANGED <<audio_data, chunk_size>>
    /\ UNCHANGED <<callVars, tableVars, record, loaded, cs, file,
                   conversations, pcm_queue, stt_frames, dify_conv,
                   dify_requests, dify_result, session_status, session_error,
                   pc_flow, pc_rec>>

\* twilio_to_gradium_stt, by the number of bytes: mu-law decoded to 16-bit
\* samples, then 8 kHz resampled to 24 kHz
twilio_to_gradium_stt(mulaw_8k) == (mulaw_8k * 2) * 3

\* twilio_media_stream, event "media": the payload converted and queued as
\* it is
MediaEvent(payload) ==
    /\ svc = "feed"
    /\ Len(pcm_queue) + Len(stt_frames) < MaxFeedFrames
    /\ LET frames == stt_frames \o pcm_queue
           first == IF frames = <<>> THEN 1 ELSE frames[Len(frames)][2] + 1
       IN pcm_queue' =
            IF payload > 0
            THEN Append(pcm_queue,
                        <<first, first + twilio_to_gradium_stt(payload) - 1>>)
            ELSE pcm_queue
    /\ UNCHANGED stt_frames
    /\ UNCHANGED <<callVars, tableVars, svc, record, loaded, cs, file,
                   conversations, audio_data, chunk_size, chunks, dify_conv,
                   dify_requests, dify_result, session_status, session_error,
                   pc_flow, pc_rec>>

\* audio_generator: the next queued chunk yielded to the transcription
\* stream
AudioGenerator ==
    /\ svc = "feed"
    /\ pcm_queue # <<>>
    /\ stt_frames' = Append(stt_frames, Head(pcm_queue))
    /\ pcm_queue' = Tail(pcm_queue)
    /\ UNCHANGED <<callVars, tableVars, svc, record, loaded, cs, file,
                   conversations, audio_data, chunk_size, chunks, dify_conv,
                   dify_requests, dify_result, session_status, session_error,
                   pc_flow, pc_rec>>

\* A retry after any response that is not a success.
should_retry_any_error(status, conversation_id) == status # 200

\* call_dify_chat: response.status_code == 400 and conversation_id
should_retry(status, conversation_id) ==
    status = 400 /\ conversation_id # "none"

\* call_dify_chat up to the end of its first request: without an API key it
\* raises before sending; the payload carries the conversation id when it is
\* not blank; the response is processed (_process_stream: an error unless
\* the status is 200) unless a retry is due.
CallDifyChat(api_key, status) ==
    /\ svc = "dify"
    /\ dify_requests = <<>>
    /\ dify_result = "none"
    /\ IF ~api_key
       THEN /\ dify_result' = "error"
            /\ UNCHANGED dify_requests
       ELSE /\ dify_requests' =
                 <<[conversation_id |-> (dify_conv = "id"),
                    status |-> status]>>
            /\ dify_result' =
                 IF status = 0 THEN "error"
                 ELSE IF should_retry(status, dify_conv) THEN "none"
                 ELSE IF status = 200 THEN "answer" ELSE "error"
    /\ UNCHANGED dify_conv
    /\ UNCHANGED <<callVars, tableVars, svc, record, loaded, cs, file,
                   conversations, audio_data, chunk_size, chunks, pcm_queue,
                   stt_frames, session_status, session_error, pc_flow,
                   pc_rec>>

\* call_dify_chat, the retry: the payload without conversation_id, and its
\* response processed
DifyRetry(status) ==
    /\ svc = "dify"
    /\ Len(dify_requests) = 1
    /\ dify_result = "none"
    /\ dify_requests' =
         Append(dify_requests, [conversation_id |-> FALSE, status |-> status])
    /\ dify_result' = IF status = 200 THEN "answer" ELSE "error"
    /\ UNCHANGED dify_conv
    /\ UNCHANGED <<callVars, tableVars, svc, record, loaded, cs, file,
                   conversations, audio_data, chunk_size, chunks, pcm_queue,
                   stt_frames, session_status, session_error, pc_flow,
                   pc_rec>>

\* CallBridgeManager._run_call_flow, the task initiate_call creates for the
\* new session (status PENDING), one step between suspensions: TRANSLATING
\* and the translation awaited; GENERATING_AUDIO and the synthesis awaited;
\* the audio written, CALLING, the call placed and IN_PROGRESS without a
\* suspension in between. ok is false when the awaited call, or placing the
\* call, raises: FAILED and the error.
RunCallFlow(ok) ==
    /\ svc = "bridge"
    /\ pc_flow \in {"start", "translate", "tts"}
    /\ IF pc_flow = "start"
       THEN /\ session_status' = "translating"
            /\ pc_flow' = "translate"
            /\ UNCHANGED session_error
       ELSE IF ~ok
       THEN /\ session_status' = "failed"
            /\ session_error' = "flow"
            /\ pc_flow' = "failed"
       ELSE IF pc_flow = "translate"
       THEN /\ session_status' = "generating_audio"
            /\ pc_flow' = "tts"
            /\ UNCHANGED session_error
       ELSE /\ session_status' = "in_progress"
            /\ pc_flow' = "placed"
            /\ UNCHANGED session_error
    /\ UNCHANGED pc_rec
    /\ UNCHANGED <<callVars, tableVars, svc, record, loaded, cs, file,
                   conversations, audio_data, chunk_size, chunks, pcm_queue,
                   stt_frames, dify_conv, dify_requests, dify_result>>

\* status_callback: the provider's status webhook for a call that was
\* placed. "completed" completes a session that is IN_PROGRESS; busy,
\* no-answer, canceled and failed fail the session whatever its status.
StatusCallback(call_status) ==
    /\ svc = "bridge"
    /\ pc_flow = "placed"
    /\ session_status' =
         IF call_status = "completed"
         THEN IF session_status = "in_progress" THEN "completed"
              ELSE session_status
         ELSE IF call_status \in {"busy", "no-answer", "canceled", "failed"}
         THEN "failed"
         ELSE session_status
    /\ session_error' =
         IF call_status \in {"busy", "no-answer", "canceled", "failed"}
         THEN "call" ELSE session_error
    /\ UNCHANGED <<pc_flow, pc_rec>>
    /\ UNCHANGED <<callVars, tableVars, svc, record, loaded, cs, file,
                   conversations, audio_data, chunk_size, chunks, pcm_queue,
                   stt_frames, dify_conv, dify_requests, dify_result>>

\* handle_call_response, called by the recording webhook of a call that was
\* placed: TRANSCRIBING whatever the status was, then the transcription and
\* the translation awaited; COMPLETED when they return, FAILED and the
\* error when one raises (ok false).
HandleCallResponse(ok) ==
    /\ svc = "bridge"
    /\ pc_flow = "placed"
    /\ IF pc_rec = "idle"
       THEN /\ session_status' = "transcribing"
            /\ pc_rec' = "stt"
            /\ UNCHANGED session_error
       ELSE /\ pc_rec = "stt"
            /\ session_status' = IF ok THEN "completed" ELSE "failed"
            /\ session_error' = IF ok THEN session_error ELSE "response"
            /\ pc_rec' = "idle"
    /\ UNCHANGED pc_flow
    /\ UNCHANGED <<callVars, tableVars, svc, record, loaded, cs, file,
                   conversations, audio_data, chunk_size, chunks, pcm_queue,
                   stt_frames, dify_conv, dify_requests, dify_result>>

InitServices ==
    /\ InitCall
    /\ \/ /\ svc = "load"
          /\ \E s \in SavedSessions : record = s
          /\ loaded = NoSession
          /\ cs = NoSession
          /\ file = NoSession
       \/ /\ svc \in {"store", "audio", "chunk", "feed", "dify", "bridge"}
          /\ record = NoSession
          /\ loaded = NoSession
          /\ cs = NoSession
          /\ file = NoSession
    /\ conversations = <<>>
    /\ IF svc = "chunk"
       THEN /\ \E n \in 0..MaxBytes : audio_data \in [1..n -> 0..1]
            /\ chunk_size \in 1..MaxChunkSize
       ELSE /\ audio_data = <<>>
            /\ chunk_size = 1
    /\ chunks = <<>>
    /\ pcm_queue = <<>>
    /\ stt_frames = <<>>
    /\ IF svc = "dify" THEN dify_conv \in {"none", "blank", "id"}
       ELSE dify_conv = "none"
    /\ dify_requests = <<>>
    /\ dify_result = "none"
    /\ session_status = "pending"
    /\ session_error = "none"
    /\ pc_flow = "start"
    /\ pc_rec = "idle"

NextServices ==
    \/ LoadSessions
    \/ StartCall
    \/ \E placed \in BOOLEAN : DialCall(placed)
    \/ \E t \in CallUserResponses, at \in 0..MaxStamp : UserResponse(t, at)
    \/ \E c \in 0..(MaxConversations + 2), e \in {<<>>, EnOk},
          d \in {None, 1}, ok \in BOOLEAN :
           ProcessAudio(c, e, d, ok)
    \/ ChunkAudio
    \/ \E payload \in {0, TWILIO_PAYLOAD_SIZE} : MediaEvent(payload)
    \/ AudioGenerator
    \/ \E api_key \in BOOLEAN, status \in {0, 200, 400, 500} :
           CallDifyChat(api_key, status)
    \/ \E status \in {0, 200, 400, 500} : DifyRetry(status)
    \/ \E ok \in BOOLEAN : RunCallFlow(ok)
    \/ \E call_status \in {"ringing", "completed", "busy", "no-answer",
                            "canceled", "failed"} :
           StatusCallback(call_status)
    \/ \E ok \in BOOLEAN : HandleCallResponse(ok)

SpecServices == InitServices /\ [][NextServices]_vars

\* ------------------------------------------------------------------ claims
HasEvent(ev, type) == \E i \in 1..Len(ev) : ev[i].type = type

\* C1: Ended and Failed are absorbing: once the phase is Ended or Failed no
\* step (speak_to_caf, a hard pause, a telephony event, an observer message,
\* the end-session endpoint) changes it to another value.
C1_TerminalAbsorbing ==
    [][(phase \in {ENDED, FAILED}) => (phase' = phase)]_vars

\* C2: a hard pause is taken at a VAD sample if and only if the run of
\* consecutive samples above 0.90 since the last other sample or turn boundary
\* has reached 3 and the accumulated text is non-empty; the code's counter is
\* that run, so a sample at or below 0.90 resets it.
C2_HardPauseIff ==
    /\ (lastMsg = "hardpause" /\ pc_stt = "hp_translate") =>
           (silence_streak >= SILENCE_THRESHOLD /\ current_text # <<>>)
    /\ lastMsg = "step" =>
           /\ ~(silence_streak >= SILENCE_THRESHOLD /\ current_text # <<>>)
           /\ vad_silence_counter = silence_streak

C2_Witness ==
    /\ lastMsg = "hardpause"
    /\ pc_stt = "hp_translate"
    /\ n_turns = 2
    /\ silence_streak = SILENCE_THRESHOLD

\* C3: once a hard pause has been processed, in whichever branch, the
\* accumulated text is empty and the silence counter 0 before the next
\* transcription message is consumed, and afterwards the accumulated text is
\* the text of the current turn only.
C3_ResetAtTurnEnd ==
    /\ (lastMsg = "hardpause" /\ pc_stt = "recv") =>
           (current_text = <<>> /\ vad_silence_counter = 0)
    /\ lastMsg \in {"text", "step", "novad"} => current_text = turnText

C3_Witness ==
    /\ n_turns = 2
    /\ lastMsg = "text"
    /\ current_text # <<>>

\* C4: a preview translation and its caf_said event happen only at a text
\* delta where the accumulated text is more than 20 characters longer than the
\* text of the last preview and more than 1.0 s has passed since it; the
\* French-to-English translation calls number the deltas that met both gates
\* plus the hard pauses.
C4_PreviewOnlyWhenBothGates ==
    /\ pc_stt = "pv_translate" =>
           /\ lastMsg = "text"
           /\ Len(current_text) - Len(last_translated_text) > 20
           /\ now - last_translation_time > 10
    /\ HasEvent(events, "caf_said") =>
           /\ lastMsg = "text"
           /\ last_translated_text = current_text
           /\ last_translation_time = now
    /\ tr_en_calls = gates_met + n_turns

\* One turn with two previews and its hard pause: three translation calls
\* after the one of the greeting turn.
C4_Witness ==
    /\ pc_stt = "hp_translate"
    /\ gates_met = 2
    /\ n_turns = 2
    /\ tr_en_calls = 4

\* C5: in every turn, whenever a text delta leaves more than 20 characters of
\* the current turn's text not covered by a preview and more than 1.0 s has
\* passed since the previous preview, a preview is translated at that delta.
C5_PreviewInEveryTurn ==
    (/\ lastMsg = "text"
     /\ pc_stt \in {"recv", "pv_translate"}
     /\ Len(turnText) - turnCovered > 20
     /\ now - last_translation_time > 10) => pc_stt = "pv_translate"

IsTerminating(entry) ==
    /\ entry.speaker = "caf"
    /\ \/ HasTermination(entry.french_text)
       \/ HasTermination(entry.english_text)

\* process_stt has stopped, has no utterance in progress and the last step
\* emitted nothing of the agent flow.
SttStopped ==
    /\ pc_stt = "done"
    /\ \A s \in streams : s.kind \notin SttKinds
    /\ ~HasEvent(events, "agent_thinking")
    /\ ~HasEvent(events, "agent_suggests")

\* C6: when the final text of a turn or its translation contains a
\* termination phrase, that hard pause (the step that emits caf_finished for
\* it) sets the phase to Ended, emits call_ended and stops the transcription
\* loop; process_stt invokes no agent, sends no real question and speaks
\* nothing for that turn or afterwards.
C6_TerminationEndsCall ==
    /\ (/\ HasEvent(events, "caf_finished")
        /\ IsTerminating(transcript[Len(transcript)])) =>
           /\ phase = ENDED
           /\ HasEvent(events, "call_ended")
           /\ SttStopped
    /\ SttStopped \/ \A i \in 1..Len(transcript) : ~IsTerminating(transcript[i])

C6_Witness ==
    /\ stt_exit = "termination"
    /\ phase = ENDED
    /\ HasEvent(events, "call_ended")
    /\ english_final = EnGoodbye
    /\ ~HasTermination(current_text)

\* The most recent entry of a speaker in a transcript, 0 if there is none.
MostRecent(t, speaker) ==
    IF \E i \in 1..Len(t) : t[i].speaker = speaker
    THEN CHOOSE i \in 1..Len(t) :
             /\ t[i].speaker = speaker
             /\ \A j \in 1..Len(t) : t[j].speaker = speaker => j <= i
    ELSE 0

Similar(a, b) ==
    LET x == Strip(Lower(a))
        y == Strip(Lower(b))
    IN IsSubstr(x, y) \/ IsSubstr(y, x)

IsAck(c) ==
    \/ Len(c) < 20
    \/ \E k \in 1..Len(acks) : IsSubstr(acks[k], Lower(c))

\* The agent returned a non-empty message without ask_user and process_stt
\* has acted on it.
GuardDecided ==
    /\ pc_stt \in {"recv", "reply_translate"}
    /\ lastMsg = "hardpause"
    /\ agent_action = "none"
    /\ agent_message # <<>>

\* C7 as stated: the guard fires if and only if some earlier user entry is
\* similar to the reply and the most recent counterparty entry is an
\* acknowledgement.
C7_LoopIffAnyUserEntry ==
    GuardDecided =>
        (pc_stt = "recv" <=>
            /\ \E i \in 1..Len(transcript) :
                   /\ transcript[i].speaker = "user"
                   /\ Similar(transcript[i].english_text, agent_message)
            /\ MostRecent(transcript, "caf") # 0
            /\ IsAck(transcript[MostRecent(transcript, "caf")].english_text))

\* C7: the guard fires if and only if the most recent user entry is non-empty
\* and similar to the reply (one contains the other, case-folded and
\* trimmed) and the most recent counterparty entry is non-empty and an
\* acknowledgement (shorter than 20 characters or containing an
\* acknowledgement word); a long counterparty text without such a word never
\* makes it fire.
C7_LoopIffLastUserEntry ==
    GuardDecided =>
        (pc_stt = "recv" <=>
            /\ MostRecent(transcript, "user") # 0
            /\ transcript[MostRecent(transcript, "user")].english_text # <<>>
            /\ Similar(transcript[MostRecent(transcript, "user")].english_text,
                       agent_message)
            /\ MostRecent(transcript, "caf") # 0
            /\ transcript[MostRecent(transcript, "caf")].english_text # <<>>
            /\ IsAck(transcript[MostRecent(transcript, "caf")].english_text))

C7_Witness ==
    /\ GuardDecided
    /\ pc_stt = "recv"
    /\ agent_message = ReplyPadded
    /\ transcript[Len(transcript)].english_text = EnLongAck

\* The step in which the loop guard fires for the agent's reply.
LoopGuardFires ==
    /\ pc_stt = "agent"
    /\ pc_stt' # "agent"
    /\ agent_action' = "none"
    /\ agent_message' # <<>>
    /\ is_repetition_loop(transcript, agent_message')

\* C8: when the loop guard fires the reply is not spoken: no synthesis stream
\* is opened and no utterance begun, no transcript entry is appended, no
\* agent_suggests is emitted; exactly one waiting_for_user is handed to the
\* observer channel and process_stt returns to listening.
C8_LoopGuardSilent ==
    [][LoopGuardFires =>
         /\ events' = <<[type |-> "waiting_for_user", sent |-> frontend_ws]>>
         /\ streams' = streams
         /\ utt_seq' = utt_seq
         /\ transcript' = transcript
         /\ pc_stt' = "recv"]_vars

C8_Witness ==
    /\ GuardDecided
    /\ pc_stt = "recv"
    /\ HasEvent(events, "waiting_for_user")
    /\ agent_message = ReplyA

\* C9: after an ask_user answer of the agent no agent reply is auto-spoken,
\* on that turn or a later one, until a user_response has been received.
C9_AskUserSuspendsAutoSpeak ==
    ask_pending =>
        /\ pc_stt # "reply_translate"
        /\ ~HasEvent(events, "agent_suggests")
        /\ \A s \in streams : s.kind # "reply"

\* C10: the speech of two consecutive agent turns is not interleaved: while
\* the synthesis stream of one agent utterance is open no other agent
\* utterance has a stream, so the chunks of a later one are sent only after
\* the earlier stream has finished.
C10_NoInterleavedAgentSpeech ==
    \A s1, s2 \in streams :
        (s1.kind \in SttKinds /\ s2.kind \in SttKinds) => s1 = s2

\* The second agent utterance after the real question is being sent.
C10_Witness ==
    /\ n_user_responses = 0
    /\ \E s \in streams : s.utt = 4 /\ s.kind \in SttKinds /\ s.sent >= 1

\* C11: once the phase is Ended or Failed the results of the translation,
\* agent and synthesis calls still in flight are discarded: from then on no
\* step appends a transcript entry, forwards an audio frame to the telephony
\* leg or emits agent_suggests or speaking_to_caf.
C11_ResultsDiscardedAfterEnd ==
    [][(phase \in {ENDED, FAILED}) =>
          /\ transcript' = transcript
          /\ \A s \in streams' :
                 \E t \in streams : t.utt = s.utt /\ t.sent = s.sent
          /\ ~HasEvent(events', "agent_suggests")
          /\ ~HasEvent(events', "speaking_to_caf")]_vars

\* An activity of the call is not running: it never started, or it returned.
TelephonyStopped == pc_tw \in {"idle", "closed", "stopped"}
TranscriptionStopped == pc_stt \in {"idle", "done"}
ObserverStopped == pc_fe \in {"idle", "closed", "hungup"}

\* C12: after the telephony connection has closed, or after a hangup has been
\* received on the observer channel, the telephony ingestion loop, the
\* transcription task and the observer listener of the call all eventually
\* stop.
C12_ActivitiesStop ==
    (pc_tw \in {"closed", "stopped"} \/ pc_fe = "hungup") ~>
        (TelephonyStopped /\ TranscriptionStopped /\ ObserverStopped)

\* The step in which the media handler's "except Exception" runs: an inbound
\* telephony message made json.loads or b64decode raise.
MediaHandlerRaised == error # "media" /\ error' = "media"

\* C13: on an unrecoverable failure (an exception in the telephony media
\* handler, which sets the phase to Failed) an error event is handed to the
\* observer channel, before any call_ended event, and the transcript entries
\* appended so far are kept.
C13_ErrorEventOnFailure ==
    [][MediaHandlerRaised =>
          /\ phase' = FAILED
          /\ \E i \in 1..Len(events') :
                 /\ events'[i].type = "error"
                 /\ \A j \in 1..(i - 1) : events'[j].type # "call_ended"
          /\ transcript' = transcript]_vars

\* The step in which the telephony socket is found closed without a stop
\* event having been received (and without an exception in the handler).
AbruptDisconnect ==
    /\ pc_tw = "loop"
    /\ pc_tw' = "closed"
    /\ ~HasEvent(events', "call_ended")
    /\ ~MediaHandlerRaised

\* C14: when the telephony media connection is lost without a stop event the
\* phase becomes Failed, an error message is recorded on the session and the
\* call's transcription task is cancelled.
C14_AbruptDisconnectFails ==
    [][AbruptDisconnect =>
          /\ phase' = FAILED
          /\ error' # "none"
          /\ pc_stt' = "done"
          /\ twilio_ws' = FALSE]_vars

\* C15: when the transcription stream cannot be opened or raises while it is
\* consumed, the phase becomes Failed and stays Failed, and process_stt does
\* not open the stream again.
C15_SttFailureFails ==
    [][/\ (stt_exit # "error" /\ stt_exit' = "error") => phase' = FAILED
       /\ stt_exit = "error" => (phase' = FAILED /\ pc_stt' = "done")]_vars

\* C16: a single inbound telephony message that is not valid JSON, or whose
\* media payload is not valid base64, is skipped: the media handler stays in
\* its receive loop, process_stt is not cancelled and the phase is not changed
\* by it.
C16_MalformedMessageSkipped ==
    [][MediaHandlerRaised =>
          /\ pc_tw' = "loop"
          /\ pc_stt' = pc_stt
          /\ phase' = phase]_vars

\* The step in which a final translation returned the French text itself.
FinalFallback ==
    /\ HasEvent(events', "caf_finished")
    /\ english_final' = current_text

\* The step in which the translation of the agent's reply returned the reply
\* itself.
ReplyFallback ==
    /\ pc_stt = "reply_translate"
    /\ pc_stt' \notin {"reply_translate", "done"}
    /\ transcript'[Len(transcript')].french_text = agent_message

\* C17: when the translation service fails, translate_to_english and
\* translate_to_french give back their input and nothing else (no exception
\* reaches the caller), and the turn goes on with the untranslated text: the
\* transcript entry is appended, the events are emitted, the agent is asked
\* and the reply is spoken, and the phase is neither Ended nor Failed.
C17_TranslationFallback ==
    [][/\ translate_to_english(current_text, {}) = {current_text}
       /\ translate_to_french(agent_message, {}) = {agent_message}
       /\ FinalFallback =>
              /\ transcript' = Append(transcript,
                     TranscriptEntry("caf", current_text, current_text))
              /\ HasEvent(events', "agent_thinking")
              /\ pc_stt' = "agent"
              /\ phase' = WAITING_USER
       /\ (HasEvent(events', "caf_said") /\ last_translation' = current_text) =>
              /\ last_translated_text' = current_text
              /\ pc_stt' = "recv"
              /\ phase' = phase
       /\ ReplyFallback =>
              /\ transcript' = Append(transcript,
                     TranscriptEntry("user", agent_message, agent_message))
              /\ HasEvent(events', "speaking_to_caf")
              /\ \E st \in streams' : st.kind = "reply" /\ st.utt = utt_seq'
              /\ phase' = USER_SPEAKING]_vars

\* Both translations of a turn fell back and the untranslated reply is being
\* spoken.
C17_Witness ==
    /\ Len(transcript) = 4
    /\ transcript[3] = TranscriptEntry("caf", ChunkLong, ChunkLong)
    /\ transcript[4] = TranscriptEntry("user", ReplyA, ReplyA)
    /\ phase = USER_SPEAKING
    /\ \E st \in streams : st.kind = "reply" /\ st.sent >= 1

\* The step in which get_agent_response returns no message and no action:
\* the round trip raised, or the agent's reply was empty.
AgentFailed ==
    /\ pc_stt = "agent"
    /\ pc_stt' \notin {"agent", "done"}
    /\ agent_action' = "none"
    /\ agent_message' = <<>>

\* C18: when the agent round trip fails (an exception, or an empty reply with
\* no action) exactly one waiting_for_user event is emitted for the turn,
\* nothing is spoken, no transcript entry is appended, the phase stays the
\* non-terminal one of the agent flow and process_stt goes back to listening
\* with the turn reset.
C18_AgentFailureWaitsForUser ==
    [][AgentFailed =>
          /\ events' = <<[type |-> "waiting_for_user", sent |-> frontend_ws]>>
          /\ streams' = streams
          /\ utt_seq' = utt_seq
          /\ transcript' = transcript
          /\ phase' = phase
          /\ phase' = WAITING_USER
          /\ error' = error
          /\ pc_stt' = "recv"
          /\ current_text' = <<>>
          /\ vad_silence_counter' = 0]_vars

C18_Witness ==
    /\ pc_stt = "recv"
    /\ lastMsg = "hardpause"
    /\ n_turns = 2
    /\ agent_action = "none"
    /\ agent_message = <<>>
    /\ events = <<[type |-> "waiting_for_user", sent |-> TRUE]>>
    /\ phase = WAITING_USER
    /\ Len(transcript) = 3

\* The step in which speak_to_caf's "except Exception" runs: the synthesis
\* stream could not be opened or raised while it was forwarded.
SynthesisFailed ==
    /\ error' = "tts"
    /\ streams' # streams
    /\ streams' \subseteq streams
    /\ pc_tw' \notin {"closed", "stopped"}
    /\ ~HasEvent(events', "finished_speaking")

\* C19: when the synthesis round trip fails inside speak_to_caf the call is
\* not terminated and a waiting-for-human state is surfaced: a
\* waiting_for_user event is emitted and the phase does not stay
\* UserSpeaking.
C19_SynthesisFailureWaitsForUser ==
    [][SynthesisFailed =>
          /\ phase' \notin {ENDED, FAILED}
          /\ HasEvent(events', "waiting_for_user")
          /\ phase' # USER_SPEAKING]_vars

\* The transcript entry of the user's real question.
IsQuestion(entry) == entry.speaker = "user" /\ entry.english_text = UserQuestion

\* The start event was handled and the greeting's speak_to_caf has returned.
GreetingOver == twilio_stream_sid /\ pc_tw # "speak"

\* The step that processes the first hard pause of the call, the greeting
\* being over, the call not ended and the turn holding no termination phrase.
FirstPauseAfterGreeting ==
    /\ HasEvent(events', "caf_finished")
    /\ \A i \in 1..Len(transcript) : transcript[i].speaker # "caf"
    /\ GreetingOver
    /\ phase \notin {ENDED, FAILED}
    /\ ~HasTermination(current_text)
    /\ ~HasTermination(english_final')

\* The step in which the speak_to_caf of the real question returns to
\* process_stt.
QuestionSpoken ==
    /\ pc_stt' = "recv"
    /\ \/ pc_stt = "q_translate"
       \/ pc_stt = "speak" /\ \E st \in streams \ streams' : st.kind = "question"

\* C20: on the telephony start event only the fixed greeting is spoken and
\* the phase is WaitingGreetingResponse when that is done; the user's real
\* question is spoken exactly once per call, at the counterparty's first hard
\* pause after the greeting, and the phase is CafSpeaking once it has been
\* spoken.
C20_GreetingThenQuestionOnce ==
    [][/\ (~twilio_stream_sid /\ twilio_stream_sid') =>
              /\ \A st \in streams' \ streams : st.kind = "greeting"
              /\ transcript' = transcript
       /\ HasEvent(events', "caf_speaking_started") =>
              phase' = WAITING_GREETING_RESPONSE
       /\ FirstPauseAfterGreeting => pc_stt' = "q_translate"
       /\ QuestionSpoken => phase' = CAF_SPEAKING
       /\ Cardinality({i \in 1..Len(transcript') :
                          IsQuestion(transcript'[i])}) <= 1]_vars

\* The edges of the lifecycle graph between phases.
LifecycleEdges ==
    {<<GATHERING_INFO, READY_TO_CALL>>, <<READY_TO_CALL, DIALING>>,
     <<DIALING, CONNECTED>>, <<CONNECTED, WAITING_GREETING_RESPONSE>>,
     <<WAITING_GREETING_RESPONSE, CAF_SPEAKING>>,
     <<CAF_SPEAKING, WAITING_USER>>, <<WAITING_USER, CAF_SPEAKING>>,
     <<WAITING_USER, USER_SPEAKING>>, <<USER_SPEAKING, WAITING_USER>>,
     <<USER_SPEAKING, CAF_SPEAKING>>, <<USER_SPEAKING, ENDED>>}

\* q is reached from p along one edge, or along two (a step between two
\* suspensions makes at most two writes of the phase).
AlongEdges(p, q) ==
    \/ <<p, q>> \in LifecycleEdges
    \/ \E m \in CallPhase :
           <<p, m>> \in LifecycleEdges /\ <<m, q>> \in LifecycleEdges

\* C21: every change of the phase that starts in a non-terminal phase follows
\* the edges of the lifecycle graph or ends in Ended or Failed, whatever the
\* interleaving of telephony, transcription and observer events.
C21_PhaseFollowsLifecycle ==
    [][(phase \notin {ENDED, FAILED} /\ phase' # phase) =>
          (phase' \in {ENDED, FAILED} \/ AlongEdges(phase, phase'))]_vars

\* C22: during every outbound utterance the phase is UserSpeaking, from the
\* speaking_to_caf event until the last synthesized chunk has been forwarded
\* (the call not having ended meanwhile); every speaking_to_caf event is
\* eventually followed by a finished_speaking event, and the phase is
\* CafSpeaking at that event.
C22_UserSpeakingWhileStreaming ==
    /\ [](streams # {} /\ phase \notin {ENDED, FAILED} => phase = USER_SPEAKING)
    /\ [][HasEvent(events', "finished_speaking") =>
             phase' = CAF_SPEAKING]_vars
    /\ (HasEvent(events, "speaking_to_caf") ~>
            HasEvent(events, "finished_speaking"))

\* The steps of the three end triggers: the observer's hangup message, the
\* telephony stop event, a final turn text with a termination phrase.
HangupReceived == pc_fe = "loop" /\ pc_fe' = "hungup"
StopReceived == pc_tw = "loop" /\ pc_tw' = "stopped"
TerminationDetected ==
    /\ HasEvent(events', "caf_finished")
    /\ HasTermination(current_text) \/ HasTermination(english_final')

\* C23: each end trigger (hangup on the observer channel, telephony stop
\* event, termination phrase) leaves the phase Ended, whatever it was, and
\* hands call_ended to the observer channel: on the listener's own socket
\* for a hangup, to the connected observer (if any) for the other two. The
\* outcome of the provider's end-call request has no part in it.
C23_EndTriggersEndCall ==
    [][/\ HangupReceived =>
              /\ phase' = ENDED
              /\ events' = <<[type |-> "call_ended", sent |-> TRUE]>>
       /\ StopReceived =>
              /\ phase' = ENDED
              /\ events' = <<[type |-> "call_ended", sent |-> frontend_ws]>>
       /\ TerminationDetected =>
              /\ phase' = ENDED
              /\ events'[Len(events')] =
                     [type |-> "call_ended", sent |-> frontend_ws]]_vars

\* All three triggers have occurred in one call.
C23_Witness ==
    /\ stt_exit = "termination"
    /\ pc_fe = "hungup"
    /\ pc_tw = "stopped"
    /\ phase = ENDED

\* The counterparty entries of a transcript.
CafCount(t) == Cardinality({i \in 1..Len(t) : t[i].speaker = "caf"})

C27_SttOwnsPhaseAndTranscript ==
    [][(pc_tw' # pc_tw \/ pc_fe' # pc_fe) =>
          (phase' = phase /\ transcript' = transcript)]_vars

\* The step in which the final translation of a hard pause returns.
FinalStep == HasEvent(events', "caf_finished")

\* C29: at each hard pause the final translation is requested once; when it
\* returns one counterparty entry is appended, one caf_finished is emitted,
\* then the termination check is made and exactly one outcome follows: the
\* call ends (termination phrase), or the deferred real question is sent
\* (phase WaitingGreetingResponse), or the agent is invoked, once. Neither the
\* question nor the agent is reached in any other way.
C29_HardPauseSequence ==
    [][/\ (pc_stt = "recv" /\ pc_stt' = "hp_translate") =>
              tr_en_calls' = tr_en_calls + 1
       /\ FinalStep =>
              /\ pc_stt = "hp_translate"
              /\ tr_en_calls' = tr_en_calls
              /\ transcript' = Append(transcript,
                     TranscriptEntry("caf", current_text, english_final'))
              /\ events'[1] = [type |-> "caf_finished", sent |-> frontend_ws]
              /\ IF HasTermination(current_text)
                    \/ HasTermination(english_final')
                 THEN /\ Len(events') = 2
                      /\ events'[2].type = "call_ended"
                      /\ phase' = ENDED
                      /\ pc_stt' = "done"
                 ELSE IF phase = WAITING_GREETING_RESPONSE
                 THEN /\ Len(events') = 1
                      /\ phase' = phase
                      /\ pc_stt' = "q_translate"
                 ELSE /\ Len(events') = 2
                      /\ events'[2].type = "agent_thinking"
                      /\ phase' = WAITING_USER
                      /\ pc_stt' = "agent"
       /\ (pc_stt # "agent" /\ pc_stt' = "agent") => FinalStep
       /\ (pc_stt # "q_translate" /\ pc_stt' = "q_translate") => FinalStep
       /\ (pc_stt = "hp_translate" /\ pc_stt' \notin {"hp_translate", "done"})
              => FinalStep]_vars

\* The first turn was answered with the real question and the second is
\* with the agent.
C29_Witness ==
    /\ n_turns = 2
    /\ pc_stt = "agent"
    /\ Len(transcript) = 3
    /\ transcript[2].speaker = "user"
    /\ transcript[2].english_text = UserQuestion
    /\ transcript[3].speaker = "caf"

\* Synthesis streams of the agent's reply.
ReplyStreams(S) == {s \in S : s.kind = "reply"}

\* C30: for a reply that passes the loop guard, the reply is translated and
\* its user entry is in the transcript when agent_suggests is emitted;
\* agent_suggests is emitted before the reply's stream is opened, which has
\* sent no audio yet; and when the reply's stream is over the phase is
\* CafSpeaking.
C30_ReplyOrder ==
    [][/\ HasEvent(events', "agent_suggests") =>
              /\ transcript' # <<>>
              /\ transcript'[Len(transcript')].speaker = "user"
              /\ transcript'[Len(transcript')].english_text = agent_message'
       /\ (pc_stt # "reply_translate" /\ pc_stt' = "reply_translate") =>
              HasEvent(events', "agent_suggests")
       /\ \A s \in ReplyStreams(streams') \ ReplyStreams(streams) :
              s.sent = 0 /\ pc_stt = "reply_translate"
       /\ (ReplyStreams(streams) # {} /\ ReplyStreams(streams') = {}) =>
              phase' = CAF_SPEAKING]_vars

\* A capacity that the frames of a call can fill.
QueueCapacity == MaxQueueFrames - 1

\* C28: the inbound audio queue is bounded: the number of frames waiting in
\* it never exceeds its capacity, also while the transcription consumer does
\* not take frames or has stopped.
C28_AudioQueueBounded == audio_buffer <= QueueCapacity

\* The answer that reports "not found".
NotFoundCode(op) == IF op = "socket" THEN 4004 ELSE 404

\* C25: an operation naming a call id that has no session (media connect,
\* observer connect, dial, get session, end session) answers not-found (close
\* code 4004 on a socket, HTTP 404), creates no session, starts no handler
\* or task, and leaves every existing session as it was.
C25_UnknownCallNotFound ==
    [][(reply' # reply /\ reply'.op # "start"
            /\ reply'.call \notin DOMAIN sessions) =>
           /\ reply'.code = NotFoundCode(reply'.op)
           /\ DOMAIN sessions' = DOMAIN sessions
           /\ DOMAIN tasks' = DOMAIN tasks
           /\ sessions' = sessions
           /\ tasks' = tasks]_vars

\* Not-found was answered on a socket for an id without a session while
\* two calls were in progress, one of them with its media handler running.
C25_Witness ==
    /\ reply.code = 4004
    /\ reply.call \notin DOMAIN sessions
    /\ Cardinality(DOMAIN sessions) = MaxSessions
    /\ \E c \in DOMAIN sessions :
           /\ <<"media", c>> \in DOMAIN tasks
           /\ tasks[<<"media", c>>].current_text # <<>>

\* The state of call c: its session, and the locals of its handlers.
HandlersOf(T, c) == {h \in DOMAIN T : h[2] = c}
CallChanged(c) ==
    \/ sessions'[c] # sessions[c]
    \/ HandlersOf(tasks', c) # HandlersOf(tasks, c)
    \/ \E h \in HandlersOf(tasks, c) : tasks'[h] # tasks[h]

\* C26: an event processed for one call (a request, a media frame, a text
\* delta, a VAD sample, an observer message, a hangup) changes the phase,
\* transcript, error, accumulated text, silence counter and translation
\* bookkeeping of no other call.
C26_CallsIsolated ==
    [][\A c \in DOMAIN sessions : CallChanged(c) => reply'.call = c]_vars

\* Two calls in progress at once, each with its own turn state.
C26_Witness ==
    /\ 1 \in DOMAIN sessions /\ 2 \in DOMAIN sessions
    /\ <<"media", 1>> \in DOMAIN tasks /\ <<"media", 2>> \in DOMAIN tasks
    /\ tasks[<<"media", 1>>].current_text = <<>>
    /\ tasks[<<"media", 1>>].last_translated_text # <<>>
    /\ sessions[1].transcript # <<>>
    /\ tasks[<<"media", 2>>].current_text # <<>>
    /\ tasks[<<"media", 2>>].vad_silence_counter = 2
    /\ sessions[2].transcript = <<>>
    /\ reply.call = 2



\* C31: the persistent store is written after each transcript append and
\* after each phase change: between the steps of the handlers, the persisted
\* record of a call has the phase and the transcript of the session in
\* memory.
C31_StoreMatchesSession ==
    cs.call_id # None =>
        /\ file.phase = cs.phase
        /\ file.transcript = to_dict(cs).transcript

\* C32: a session written with to_dict and read back with from_dict keeps
\* every field of the persisted record: call identifier, target, phase,
\* transcript (speaker, both texts, timestamp and order of every entry),
\* error, created timestamp and the conversation identifier held with the
\* agent backend.
C32_RoundTripPreserves ==
    loaded.call_id # None =>
        /\ loaded.call_id = record.call_id
        /\ loaded.target = record.target
        /\ loaded.phase = record.phase
        /\ loaded.transcript = record.transcript
        /\ loaded.error = record.error
        /\ loaded.created_at = record.created_at
        /\ loaded.dify_conversation_id = record.dify_conversation_id




MessagesOf(table, c, role) ==
    IF c \in DOMAIN table
    THEN Cardinality({i \in 1..Len(table[c].messages) :
                         table[c].messages[i] = role})
    ELSE 0
Gained(c, role) ==
    MessagesOf(conversations', c, role) - MessagesOf(conversations, c, role)

\* C33: handling one process-audio request does the conversation
\* bookkeeping exactly once: one conversation gains exactly one user message
\* and at most one assistant message, no other conversation gains a message,
\* and at most one conversation is created.
C33_BookkeepingOnce ==
    [][conversations' # conversations =>
          /\ Cardinality(DOMAIN conversations' \ DOMAIN conversations) <= 1
          /\ \E c \in DOMAIN conversations' :
                /\ Gained(c, "user") = 1
                /\ Gained(c, "assistant") <= 1
                /\ \A d \in DOMAIN conversations' \ {c} :
                       Gained(d, "user") = 0 /\ Gained(d, "assistant") = 0
      ]_vars


\* C34: every frame handed to the transcription stream has the engine's
\* frame size (80 ms at 24 kHz, 3840 bytes of 16-bit PCM), and the frames
\* handed over are the converted bytes in arrival order, none dropped and
\* none duplicated.
C34_EngineFrames ==
    /\ \A i \in 1..Len(stt_frames) :
           stt_frames[i][2] - stt_frames[i][1] + 1
               = GRADIUM_STT_CHUNK_SIZE * 2
    /\ \A i \in 1..Len(stt_frames) :
           stt_frames[i][1] = IF i = 1 THEN 1 ELSE stt_frames[i - 1][2] + 1

RECURSIVE Joined(_)
Joined(parts) ==
    IF parts = <<>> THEN <<>> ELSE Head(parts) \o Joined(Tail(parts))

\* C35: for every byte string and chunk size n >= 1, the chunks of
\* chunk_audio joined in order are the data; every chunk but the last has
\* exactly n bytes, no chunk is empty, and empty data gives no chunk.
C35_ChunksPartitionData ==
    svc = "chunked" =>
        /\ Joined(chunks) = audio_data
        /\ \A k \in 1..(Len(chunks) - 1) : Len(chunks[k]) = chunk_size
        /\ \A k \in 1..Len(chunks) : chunks[k] # <<>>
        /\ (audio_data = <<>> => chunks = <<>>)

C35_Witness ==
    /\ svc = "chunked"
    /\ Len(chunks) >= 2
    /\ Len(chunks[Len(chunks)]) < chunk_size


\* C39: call_dify_chat sends at most two requests; a second request is sent
\* only if the first returned HTTP 400 and a conversation id was supplied,
\* it carries no conversation_id, and a final response with a status other
\* than 200 is reported as an error, not as an answer.
C39_OneRetryWithoutConversation ==
    /\ Len(dify_requests) <= 2
    /\ Len(dify_requests) = 2 =>
          /\ dify_requests[1].status = 400
          /\ dify_conv # "none"
          /\ ~dify_requests[2].conversation_id
    /\ (dify_result # "none" /\ dify_requests # <<>>
          /\ dify_requests[Len(dify_requests)].status # 200)
         => dify_result = "error"

C39_Witness ==
    /\ Len(dify_requests) = 2
    /\ dify_requests[1].conversation_id
    /\ dify_result = "answer"


\* C36: the silence that ends a turn follows the speech of the turn: a hard
\* pause is taken only when at least 3 consecutive samples above 0.90 have
\* all been received after the turn's most recent text delta.
C36_SilenceAfterLastDelta ==
    (lastMsg = "hardpause" /\ pc_stt = "hp_translate") =>
        silent_since_text >= SILENCE_THRESHOLD

\* C36 (amended): a hard pause is taken only at a sample above 0.90 that
\* completes a run of at least 3 consecutive such samples while the
\* accumulated text is non-empty; the sample that takes it follows the
\* turn's last text delta, the earlier samples of the run need not (a text
\* delta does not reset the count, and samples counted while the text was
\* empty count).
C36_SilentRunEndsTurn ==
    (lastMsg = "hardpause" /\ pc_stt = "hp_translate") =>
        /\ silence_streak >= SILENCE_THRESHOLD
        /\ silent_since_text >= 1
        /\ silent_since_text <= silence_streak
        /\ current_text # <<>>

C36_Witness ==
    /\ lastMsg = "hardpause"
    /\ pc_stt = "hp_translate"
    /\ silent_since_text = 1
    /\ silence_streak >= SILENCE_THRESHOLD


\* C37: at most one outbound synthesis stream (speak_to_caf) is in progress
\* per call at any time, whoever started it: the greeting of the telephony
\* media handler, the question, filler and replies of the transcription
\* loop, the observer's own response.
C37_OneStreamPerCall == Cardinality(streams) <= 1

\* The resolutions of an agent turn among the events of one step.
Resolutions(ev) ==
    SelectSeq(ev, LAMBDA e : e.type \in {"waiting_for_user", "agent_suggests"})

\* The events of the step hold exactly one resolution, of the given type.
Resolved(type) ==
    /\ Len(Resolutions(events')) = 1
    /\ Resolutions(events')[1].type = type

\* The agent's answer leaves the turn to the human: an ask_user action, no
\* reply, or a reply the loop guard stops.
LeftToUser ==
    \/ agent_action' = "ask_user"
    \/ agent_message' = <<>>
    \/ is_repetition_loop(transcript, agent_message')

\* C38: when the agent, translation and synthesis calls return, the turn
\* opened by agent_thinking is resolved exactly once before process_stt
\* consumes the next transcription message: by one waiting_for_user (at once
\* for ask_user without a filler, the loop guard and a missing reply, after
\* the filler for ask_user with one), or by one agent_suggests after which
\* the reply is translated and spoken to its end; no other step emits either
\* event, and process_stt is back at the stream only after the resolution.
C38_OneResolutionPerTurn ==
    [][/\ (pc_stt = "agent" /\ pc_stt' \notin {"agent", "done"}) =>
              IF agent_action' = "ask_user" /\ agent_message' # <<>>
              THEN pc_stt' = "filler_translate" /\ Resolutions(events') = <<>>
              ELSE IF LeftToUser
              THEN pc_stt' = "recv" /\ Resolved("waiting_for_user")
              ELSE pc_stt' = "reply_translate" /\ Resolved("agent_suggests")
       /\ (pc_stt = "filler_translate"
              /\ pc_stt' \notin {"filler_translate", "done"}) =>
              \/ /\ pc_stt' = "speak"
                 /\ Resolutions(events') = <<>>
                 /\ \E s \in streams' \ streams : s.kind = "filler"
              \/ /\ pc_stt' = "recv"
                 /\ ~(twilio_ws /\ twilio_stream_sid)
                 /\ Resolved("waiting_for_user")
       /\ (pc_stt = "reply_translate"
              /\ pc_stt' \notin {"reply_translate", "done"}) =>
              /\ pc_stt' = "speak"
              /\ Resolutions(events') = <<>>
              /\ \E s \in streams' \ streams : s.kind = "reply"
       /\ (pc_stt = "speak" /\ pc_stt' \notin {"speak", "done"}) =>
              /\ pc_stt' = "recv"
              /\ \E s \in streams \ streams' :
                     CASE s.kind = "filler" -> Resolved("waiting_for_user")
                       [] s.kind = "reply" ->
                              /\ Resolutions(events') = <<>>
                              /\ \/ SynthesisFailed
                                 \/ /\ s.st = "stream"
                                    /\ HasEvent(events', "finished_speaking")
                       [] OTHER -> Resolutions(events') = <<>>
       /\ (pc_stt' = pc_stt
              \/ pc_stt \notin {"agent", "filler_translate",
                                 "reply_translate", "speak"}) =>
              Resolutions(events') = <<>>]_vars

\* The agent's reply was announced by agent_suggests and has just been spoken
\* to its end; process_stt is back at the stream.
C38_Witness ==
    /\ pc_stt = "recv"
    /\ lastMsg = "hardpause"
    /\ agent_action = "none"
    /\ agent_message # <<>>
    /\ streams = {}
    /\ phase = CAF_SPEAKING
    /\ HasEvent(events, "finished_speaking")
    /\ transcript # <<>>
    /\ transcript[Len(transcript)].english_text = agent_message

\* C40: in the recorded-call flow COMPLETED and FAILED are terminal: once the
\* session's status is one of them, no status callback of the provider, no
\* recording webhook (handle_call_response) and no step of _run_call_flow
\* changes it, however the three interleave.
C40_StatusTerminal ==
    [][(session_status \in {"completed", "failed"})
          => (session_status' = session_status)]_vars

====
